---- MODULE Spec2Model ----
(***************************************************************************)
(* Vocab Highlighter: the service worker (background script).              *)
(* The persisted state (chrome.storage.local keys vocabList and apiKey),   *)
(* the promise chain writeQueue that serializes the read-modify-write      *)
(* vocabulary operations, and the handlers of the inbound commands         *)
(* TRANSLATE_WORD, SCAN_PAGE, DELETE_WORD and UPDATE_WORD.                 *)
(*                                                                         *)
(* JavaScript runs every handler and every continuation to completion;     *)
(* a handler suspends only at an await (a storage call or the fetch        *)
(* of the translation).  One action of the model is one such run.          *)
(***************************************************************************)
EXTENDS Integers, Sequences, FiniteSets, TLC

\* ------------------------------------------------------------------------
\* Bounds of the model
\* ------------------------------------------------------------------------
\* number of inbound commands of one behaviour
MaxReqs == 2

\* ------------------------------------------------------------------------
\* Input domains.  A string is a sequence of one-character strings, so that
\* toLowerCase and trim are computed character by character.
\* ------------------------------------------------------------------------
\* what the content script sends with TRANSLATE_WORD: the selected word, the
\* paragraph around it and the URL of the page
Selections ==
  { [word |-> <<"c","a","t">>, paragraph |-> "p1", sourceUrl |-> "u1"],
    [word |-> <<"C","a","t">>, paragraph |-> "",   sourceUrl |-> "u2"],
    [word |-> <<"d","o","g">>, paragraph |-> "p1", sourceUrl |-> "u1"] }

\* words the vocabulary list of the popup sends with DELETE_WORD
DeleteWords == { <<"C","A","T">>, <<"d","o","g">> }

\* words the vocabulary list of the popup sends with UPDATE_WORD
UpdateWords == { <<"c","a","t">>, <<"d","o","g">> }

\* translations the user types into the edit field of the vocabulary list
Edits == { <<"z">> }

\* values typed into the apiKey input of the options page
ApiKeyInputs == { <<>>, <<" ">>, <<"s","k">> }

\* responses of the translation endpoint to one fetch.  net is FALSE when
\* the fetch itself rejects; json is FALSE when the body is not JSON;
\* hasChoices is FALSE when the body has no choices member; a choice
\* without message content has hasContent FALSE.
HttpResponse(net, ok, status, json, hasChoices, choices) ==
  [net |-> net, ok |-> ok, status |-> status, json |-> json,
   hasChoices |-> hasChoices, choices |-> choices]

Choice(content) == [hasContent |-> TRUE, content |-> content]

HttpResponses ==
  { HttpResponse(FALSE, FALSE, 0, FALSE, FALSE, <<>>),
    HttpResponse(TRUE, FALSE, 401, TRUE, FALSE, <<>>),
    HttpResponse(TRUE, TRUE, 200, TRUE, TRUE, <<>>),
    HttpResponse(TRUE, TRUE, 200, TRUE, TRUE, << Choice(<<" ">>) >>),
    HttpResponse(TRUE, TRUE, 200, TRUE, TRUE, << Choice(<<" ","y"," ">>) >>) }

\* message of the error a rejected storage call carries
StorageError == "storage error"

\* message of the error a rejected fetch carries
NetworkError == "Failed to fetch"

NoApiKeyError == "API key not configured. Please set it in extension settings."

\* ------------------------------------------------------------------------
\* String functions
\* ------------------------------------------------------------------------
LowerChar(c) ==
  CASE c = "A" -> "a" [] c = "B" -> "b" [] c = "C" -> "c" [] c = "D" -> "d"
    [] c = "G" -> "g" [] c = "O" -> "o" [] c = "T" -> "t"
    [] OTHER -> c

toLowerCase(s) == [i \in DOMAIN s |-> LowerChar(s[i])]

IsSpace(c) == c = " "

RECURSIVE trimStart(_)
trimStart(s) ==
  IF s # <<>> /\ IsSpace(Head(s)) THEN trimStart(Tail(s)) ELSE s

RECURSIVE trimEnd(_)
trimEnd(s) ==
  IF s # <<>> /\ IsSpace(s[Len(s)]) THEN trimEnd(SubSeq(s, 1, Len(s) - 1)) ELSE s

trim(s) == trimEnd(trimStart(s))

\* x || "" of JavaScript on a string
OrEmpty(x) == IF x = "" THEN "" ELSE x

\* ------------------------------------------------------------------------
\* State
\* ------------------------------------------------------------------------
VARIABLES
  vocabList,   \* chrome.storage.local key vocabList: sequence of VocabEntry
  apiKey,      \* chrome.storage.local key apiKey
  writeQueue,  \* the chain of promises of serializedWrite: ids of the
               \* commands whose operation was chained, in submission order
  reqs,        \* the inbound commands received so far, with the position
               \* of the handler of each
  clock,       \* the wall clock: the last value new Date() returned
  dom,         \* content script: the children of document.body of the page
  scans,       \* content script: the calls of scanPageForVocab so far
  last,        \* content script: the last operation that acted on the page
  badges,      \* content script: the .vh-badge elements in document.body
  activeBadge, \* content script: the badge activeBadge refers to, 0 if null
  popup,       \* content script: the popup element in the shadow root
  currentWord,      \* content script: the word of the popup
  currentParagraph, \* content script: the context of that word
  isTranslating,    \* content script: the guard of requestTranslation
  calls,       \* content script: the calls of requestTranslation that
               \* have sent TRANSLATE_WORD
  selection    \* the page: window.getSelection()

\* the state of the content script of one page
page ==
  <<dom, scans, last, badges, activeBadge, popup, currentWord,
    currentParagraph, isTranslating, calls, selection>>

vars ==
  <<vocabList, apiKey, writeQueue, reqs, clock, dom, scans, last, badges,
    activeBadge, popup, currentWord, currentParagraph, isTranslating, calls,
    selection>>

\* the response of a command; kind "none" as long as sendResponse was not
\* called
NoResponse ==
  [kind |-> "none", success |-> FALSE, error |-> "", translation |-> <<>>,
   updated |-> FALSE, list |-> <<>>]

\* the promise of an operation chained by serializedWrite; state is one of
\* "none" (not chained), "pending", "fulfilled", "rejected"
NoPromise ==
  [state |-> "none", flag |-> FALSE, list |-> <<>>, error |-> ""]

NewReq(type, word, translation, paragraph, sourceUrl) ==
  [type |-> type, word |-> word, translation |-> translation,
   paragraph |-> paragraph, sourceUrl |-> sourceUrl,
   pc |-> "start",
   read |-> <<>>,        \* the vocabList the operation read
   next |-> <<>>,        \* the vocabList the operation writes
   now |-> 0,            \* the value of new Date() of the operation
   settledAtIssue |-> 0, \* number of settled links of writeQueue when the
                         \* command arrived
   chainedAtIssue |-> 0, \* number of links of writeQueue when the command
                         \* arrived
   promise |-> NoPromise,
   resp |-> NoResponse]

\* the popup as createPopupElements leaves it and as hidePopup leaves it:
\* not displayed and without content.  header is the word of
\* .vh-popup-word, btn the button .vh-popup-btn, items the elements
\* appended after the button.
NoPopup ==
  [display |-> FALSE, header |-> <<>>,
   btn |-> [present |-> FALSE, disabled |-> FALSE, busy |-> FALSE,
            hidden |-> FALSE],
   items |-> <<>>]

\* a collapsed selection; of another one, word is toString().trim(), text
\* the textContent of the block element that encloses anchorNode, and at
\* the index in text of the selected occurrence, -1 when text has not the
\* selected string
NoSelection == [collapsed |-> TRUE, word |-> <<>>, text |-> <<>>, at |-> -1]

\* the variables of the badge and of the popup as the content script
\* declares them, in a page where nothing is selected
Declared ==
  /\ selection = NoSelection
  /\ badges = {}
  /\ activeBadge = 0
  /\ popup = NoPopup
  /\ currentWord = <<>>
  /\ currentParagraph = <<>>
  /\ isTranslating = FALSE
  /\ calls = <<>>

\* no operation of the content script has acted on the page yet
NoOperation == [op |-> "none", word |-> <<>>, translation |-> <<>>, count |-> 0]

Init ==
  /\ vocabList = <<>>
  /\ apiKey = <<>>
  /\ writeQueue = <<>>
  /\ reqs = <<>>
  /\ clock = 0
  /\ dom = <<>>
  /\ scans = <<>>
  /\ last = NoOperation
  /\ Declared

\* ------------------------------------------------------------------------
\* Translation client
\* ------------------------------------------------------------------------
\* translateWord on the response r of its one fetch: the trimmed content
\* of the first choice, or the error it throws
\* translateWord returning message.content as it came, without trim()
translateWordUntrimmed(r) ==
  IF ~r.net THEN [ok |-> FALSE, value |-> <<>>, error |-> NetworkError]
  ELSE IF ~r.ok
    THEN [ok |-> FALSE, value |-> <<>>,
          error |-> "API request failed (" \o ToString(r.status) \o ")"]
  ELSE IF ~r.json
    THEN [ok |-> FALSE, value |-> <<>>, error |-> "Unexpected token"]
  ELSE IF ~r.hasChoices \/ Len(r.choices) = 0
    THEN [ok |-> FALSE, value |-> <<>>, error |-> "API returned no choices"]
  ELSE LET content == IF r.choices[1].hasContent
                        THEN r.choices[1].content ELSE <<>>
       IN IF trim(content) = <<>>
            THEN [ok |-> FALSE, value |-> <<>>,
                  error |-> "API returned empty translation"]
            ELSE [ok |-> TRUE, value |-> content, error |-> ""]

\* translateWord without the check of the trimmed text
translateWordAcceptsEmpty(r) ==
  IF ~r.net THEN [ok |-> FALSE, value |-> <<>>, error |-> NetworkError]
  ELSE IF ~r.ok
    THEN [ok |-> FALSE, value |-> <<>>,
          error |-> "API request failed (" \o ToString(r.status) \o ")"]
  ELSE IF ~r.json
    THEN [ok |-> FALSE, value |-> <<>>, error |-> "Unexpected token"]
  ELSE IF ~r.hasChoices \/ Len(r.choices) = 0
    THEN [ok |-> FALSE, value |-> <<>>, error |-> "API returned no choices"]
  ELSE [ok |-> TRUE,
        value |-> IF r.choices[1].hasContent
                    THEN trim(r.choices[1].content) ELSE <<>>,
        error |-> ""]

translateWord(r) ==
  IF ~r.net THEN [ok |-> FALSE, value |-> <<>>, error |-> NetworkError]
  ELSE IF ~r.ok
    THEN [ok |-> FALSE, value |-> <<>>,
          error |-> "API request failed (" \o ToString(r.status) \o ")"]
  ELSE IF ~r.json
    THEN [ok |-> FALSE, value |-> <<>>, error |-> "Unexpected token"]
  ELSE IF ~r.hasChoices \/ Len(r.choices) = 0
    THEN [ok |-> FALSE, value |-> <<>>, error |-> "API returned no choices"]
  ELSE LET content == IF r.choices[1].hasContent
                        THEN trim(r.choices[1].content) ELSE <<>>
       IN IF content = <<>>
            THEN [ok |-> FALSE, value |-> <<>>,
                  error |-> "API returned empty translation"]
            ELSE [ok |-> TRUE, value |-> content, error |-> ""]

\* ------------------------------------------------------------------------
\* Storage helpers
\* ------------------------------------------------------------------------
\* a read of a key that is never written resolves to the default []
getVocabListWrongKey(stored) == <<>>

\* the value a served chrome.storage.local.get("vocabList") resolves to
getVocabList(stored) == stored

\* the apiKey a served chrome.storage.local.get(["apiKey","model"])
\* resolves to
getApiConfig(stored) == stored

\* ------------------------------------------------------------------------
\* Vocabulary operations: the part of each between its read and its write
\* ------------------------------------------------------------------------
\* Array.prototype.findIndex with the predicate
\* e.word.toLowerCase() === lowerWord: the 0-based index of the first
\* match, -1 when there is none
RECURSIVE findIndexFrom(_, _, _)
findIndexFrom(list, lowerWord, k) ==
  IF k >= Len(list) THEN -1
  ELSE IF toLowerCase(list[k + 1].word) = lowerWord THEN k
  ELSE findIndexFrom(list, lowerWord, k + 1)

findIndex(list, lowerWord) == findIndexFrom(list, lowerWord, 0)

\* Array.prototype.filter with the predicate
\* e.word.toLowerCase() !== lowerWord
RECURSIVE filterOut(_, _)
filterOut(list, lowerWord) ==
  IF list = <<>> THEN <<>>
  ELSE IF toLowerCase(Head(list).word) # lowerWord
    THEN <<Head(list)>> \o filterOut(Tail(list), lowerWord)
    ELSE filterOut(Tail(list), lowerWord)

\* findIndex with the predicate e.word === entry.word
RECURSIVE findIndexExactFrom(_, _, _)
findIndexExactFrom(list, word, k) ==
  IF k >= Len(list) THEN -1
  ELSE IF list[k + 1].word = word THEN k
  ELSE findIndexExactFrom(list, word, k + 1)

\* the existing entry is looked up by its exact spelling
saveVocabEntryCaseSensitive(list, entry, now) ==
  LET existingIndex == findIndexExactFrom(list, entry.word, 0)
      vocabEntry == [word |-> entry.word,
                     translation |-> entry.translation,
                     context |-> OrEmpty(entry.context),
                     sourceUrl |-> OrEmpty(entry.sourceUrl),
                     addedAt |-> now]
  IN IF existingIndex >= 0
       THEN [list |-> [list EXCEPT ![existingIndex + 1] =
                         [vocabEntry EXCEPT !.addedAt =
                            list[existingIndex + 1].addedAt]],
             flag |-> TRUE]
       ELSE [list |-> Append(list, vocabEntry), flag |-> FALSE]

\* the existing entry is replaced without restoring its addedAt
saveVocabEntryRestamps(list, entry, now) ==
  LET existingIndex == findIndex(list, toLowerCase(entry.word))
      vocabEntry == [word |-> entry.word,
                     translation |-> entry.translation,
                     context |-> OrEmpty(entry.context),
                     sourceUrl |-> OrEmpty(entry.sourceUrl),
                     addedAt |-> now]
  IN IF existingIndex >= 0
       THEN [list |-> [list EXCEPT ![existingIndex + 1] = vocabEntry],
             flag |-> TRUE]
       ELSE [list |-> Append(list, vocabEntry), flag |-> FALSE]

saveVocabEntry(list, entry, now) ==
  LET lowerWord == toLowerCase(entry.word)
      existingIndex == findIndex(list, lowerWord)
      vocabEntry == [word |-> entry.word,
                     translation |-> entry.translation,
                     context |-> OrEmpty(entry.context),
                     sourceUrl |-> OrEmpty(entry.sourceUrl),
                     addedAt |-> now]
  IN IF existingIndex >= 0
       THEN [list |-> [list EXCEPT ![existingIndex + 1] =
                         [vocabEntry EXCEPT !.addedAt =
                            list[existingIndex + 1].addedAt]],
             flag |-> TRUE]
       ELSE [list |-> Append(list, vocabEntry), flag |-> FALSE]

\* filter with the predicate e.word !== word
deleteVocabEntryCaseSensitive(list, word) ==
  [list |-> SelectSeq(list, LAMBDA e : e.word # word), flag |-> TRUE]

deleteVocabEntry(list, word) ==
  [list |-> filterOut(list, toLowerCase(word)), flag |-> TRUE]

\* success: true whether or not an entry was found
updateVocabEntryAlwaysSucceeds(list, word, translation) ==
  LET k == findIndex(list, toLowerCase(word))
  IN IF k >= 0
       THEN [list |-> [list EXCEPT ![k + 1].translation = translation],
             flag |-> TRUE]
       ELSE [list |-> list, flag |-> TRUE]

\* the entry found is replaced by a new entry that keeps only its addedAt
updateVocabEntryReplaces(list, word, translation) ==
  LET k == findIndex(list, toLowerCase(word))
  IN IF k >= 0
       THEN [list |-> [list EXCEPT ![k + 1] =
                         [word |-> word, translation |-> translation,
                          context |-> "", sourceUrl |-> "",
                          addedAt |-> list[k + 1].addedAt]],
             flag |-> TRUE]
       ELSE [list |-> list, flag |-> FALSE]

updateVocabEntry(list, word, translation) ==
  LET lowerWord == toLowerCase(word)
      k == findIndex(list, lowerWord)
  IN IF k >= 0
       THEN [list |-> [list EXCEPT ![k + 1].translation = translation],
             flag |-> TRUE]
       ELSE [list |-> list, flag |-> FALSE]

\* the operation of command r applied to the list it read
Operation(r, list, now) ==
  CASE r.type = "TRANSLATE_WORD" ->
         saveVocabEntry(list, [word |-> r.word, translation |-> r.translation,
                               context |-> r.paragraph,
                               sourceUrl |-> r.sourceUrl], now)
    [] r.type = "DELETE_WORD" -> deleteVocabEntry(list, r.word)
    [] r.type = "UPDATE_WORD" -> updateVocabEntry(list, r.word, r.translation)

\* ------------------------------------------------------------------------
\* Write serialization
\* ------------------------------------------------------------------------
\* fn called at once, without chaining it on writeQueue
thenCallsFnUnchained(state) == TRUE

\* writeQueue.then(fn): fn is not called when the promise is rejected
thenCallsFnOnFulfilled(state) == state = "fulfilled"

\* writeQueue.then(fn, fn): fn is called once the promise it is chained on
\* has settled, fulfilled or rejected
thenCallsFn(state) == state \in {"fulfilled", "rejected"}

\* the promise then() returns when fn is not called: it settles as the
\* promise prev it is chained on, and the handler of command r sees that
\* outcome
PassThrough(r, prev) ==
  [r EXCEPT !.pc = "skipped",
            !.promise = prev,
            !.resp = IF prev.state = "rejected"
                       THEN IF r.type = "TRANSLATE_WORD"
                              THEN [NoResponse EXCEPT !.kind = "error",
                                                      !.error = prev.error]
                              ELSE NoResponse
                       ELSE IF r.type = "TRANSLATE_WORD"
                              THEN [NoResponse EXCEPT !.kind = "translated",
                                                      !.success = TRUE,
                                                      !.translation = r.translation,
                                                      !.updated = prev.flag]
                              ELSE [NoResponse EXCEPT !.kind = "result",
                                                      !.success = prev.flag,
                                                      !.list = prev.list]]

\* the promise the variable writeQueue holds: the last link of the chain,
\* Promise.resolve() at first
QueueTail ==
  IF writeQueue = <<>> THEN [NoPromise EXCEPT !.state = "fulfilled"]
  ELSE reqs[writeQueue[Len(writeQueue)]].promise

\* serializedWrite(fn) called by the handler of command r: the operation is
\* chained on the promise writeQueue holds and, when that promise has
\* settled, issues its read at once
serializedWrite(r) ==
  IF thenCallsFn(QueueTail.state)
    THEN [r EXCEPT !.promise = [NoPromise EXCEPT !.state = "pending"],
                   !.pc = "reading"]
  ELSE IF QueueTail.state = "pending"
    THEN [r EXCEPT !.promise = [NoPromise EXCEPT !.state = "pending"],
                   !.pc = "queued"]
  ELSE PassThrough(r, QueueTail)

Position(i) == CHOOSE k \in 1..Len(writeQueue) : writeQueue[k] = i

\* link k of the chain has settled in rs: the operation chained on it, if
\* there is one, issues its read
RECURSIVE RunNextFrom(_, _)
RunNextFrom(rs, k) ==
  IF k >= Len(writeQueue) THEN rs
  ELSE LET j == writeQueue[k + 1]
           prev == rs[writeQueue[k]].promise
       IN IF rs[j].pc # "queued" THEN rs
          ELSE IF thenCallsFn(prev.state)
            THEN [rs EXCEPT ![j].pc = "reading"]
            ELSE RunNextFrom([rs EXCEPT ![j] = PassThrough(rs[j], prev)], k + 1)

RunNext(rs, i) == RunNextFrom(rs, Position(i))

Settled(r) == r.promise.state \in {"fulfilled", "rejected"}

NumSettled == Cardinality({k \in 1..Len(writeQueue) : Settled(reqs[writeQueue[k]])})

\* ------------------------------------------------------------------------
\* Responses
\* ------------------------------------------------------------------------
ErrorResponse(msg) ==
  [NoResponse EXCEPT !.kind = "error", !.success = FALSE, !.error = msg]

\* what the handler of command r does when the promise of its operation is
\* rejected with msg: TRANSLATE_WORD catches and answers the failure, the
\* then() of DELETE_WORD and UPDATE_WORD has no rejection handler
RejectedResponse(r, msg) ==
  IF r.type = "TRANSLATE_WORD" THEN ErrorResponse(msg) ELSE NoResponse

\* what the handler of command r answers when its operation is fulfilled
\* with flag and list
FulfilledResponse(r, flag, list) ==
  IF r.type = "TRANSLATE_WORD"
    THEN [NoResponse EXCEPT !.kind = "translated", !.success = TRUE,
                            !.translation = r.translation, !.updated = flag]
    ELSE [NoResponse EXCEPT !.kind = "result", !.success = flag,
                            !.list = list]

\* ------------------------------------------------------------------------
\* Actions
\* ------------------------------------------------------------------------
Stamp(r) ==
  [r EXCEPT !.settledAtIssue = NumSettled, !.chainedAtIssue = Len(writeQueue)]

\* onMessage TRANSLATE_WORD: the handler calls getApiConfig
ReceiveTranslate(sel) ==
  /\ Len(reqs) < MaxReqs
  /\ reqs' = Append(reqs, [Stamp(NewReq("TRANSLATE_WORD", sel.word, <<>>,
                                        sel.paragraph, sel.sourceUrl))
                             EXCEPT !.pc = "getConfig"])
  /\ UNCHANGED <<vocabList, apiKey, writeQueue, clock, page>>

\* onMessage SCAN_PAGE: the handler calls getVocabList
ReceiveScan ==
  /\ Len(reqs) < MaxReqs
  /\ reqs' = Append(reqs, [Stamp(NewReq("SCAN_PAGE", <<>>, <<>>, "", ""))
                             EXCEPT !.pc = "reading"])
  /\ UNCHANGED <<vocabList, apiKey, writeQueue, clock, page>>

\* onMessage DELETE_WORD: the handler calls deleteVocabEntry
ReceiveDelete(word) ==
  /\ Len(reqs) < MaxReqs
  /\ reqs' = Append(reqs,
                    serializedWrite(Stamp(NewReq("DELETE_WORD", word, <<>>, "", ""))))
  /\ writeQueue' = Append(writeQueue, Len(reqs) + 1)
  /\ UNCHANGED <<vocabList, apiKey, clock, page>>

\* onMessage UPDATE_WORD: the handler calls updateVocabEntry
ReceiveUpdate(word, translation) ==
  /\ Len(reqs) < MaxReqs
  /\ reqs' = Append(reqs,
                    serializedWrite(Stamp(NewReq("UPDATE_WORD", word, translation,
                                                 "", ""))))
  /\ writeQueue' = Append(writeQueue, Len(reqs) + 1)
  /\ UNCHANGED <<vocabList, apiKey, clock, page>>

\* apiKey === undefined, which the default "" of the destructuring never is
noApiKeyUndefined(key) == FALSE

\* !apiKey
noApiKey(key) == key = <<>>

\* the storage call of getApiConfig of command i is served: without a key
\* the handler answers the failure, with a key it calls translateWord
ConfigServed(i) ==
  /\ reqs[i].pc = "getConfig"
  /\ LET key == getApiConfig(apiKey)
     IN reqs' = IF noApiKey(key)
                  THEN [reqs EXCEPT ![i].pc = "done",
                                    ![i].resp = ErrorResponse(NoApiKeyError)]
                  ELSE [reqs EXCEPT ![i].pc = "translating"]
  /\ UNCHANGED <<vocabList, apiKey, writeQueue, clock, page>>

\* the fetch of translateWord of command i gets the response http: on
\* success the handler calls saveVocabEntry, on failure it answers the
\* failure
FetchDone(i, http) ==
  /\ reqs[i].pc = "translating"
  /\ LET t == translateWord(http)
     IN IF t.ok
          THEN /\ reqs' = [reqs EXCEPT ![i] =
                             serializedWrite([reqs[i] EXCEPT !.translation = t.value])]
               /\ writeQueue' = Append(writeQueue, i)
          ELSE /\ reqs' = [reqs EXCEPT ![i].pc = "done",
                                       ![i].resp = ErrorResponse(t.error)]
               /\ UNCHANGED writeQueue
  /\ UNCHANGED <<vocabList, apiKey, clock, page>>

\* the storage read of command i is served.  SCAN_PAGE answers the list;
\* a vocabulary operation computes the new list and issues its write.
\* new Date() returns a later time at every call.
ReadServed(i) ==
  /\ reqs[i].pc = "reading"
  /\ LET list == getVocabList(vocabList)
     IN IF reqs[i].type = "SCAN_PAGE"
          THEN /\ reqs' = [reqs EXCEPT ![i].pc = "done",
                                       ![i].resp = [NoResponse EXCEPT !.kind = "list",
                                                                      !.list = list]]
               /\ UNCHANGED clock
          ELSE LET now == clock + 1
                   o == Operation(reqs[i], list, now)
               IN /\ reqs' = [reqs EXCEPT ![i].pc = "writing",
                                          ![i].read = list,
                                          ![i].now = now,
                                          ![i].next = o.list,
                                          ![i].promise.flag = o.flag]
                  /\ clock' = now
  /\ UNCHANGED <<vocabList, apiKey, writeQueue, page>>

\* the storage write of the operation of command i is served: the promise
\* of the operation is fulfilled, its handler answers, and the operation
\* chained on it starts
WriteServed(i) ==
  /\ reqs[i].pc = "writing"
  /\ vocabList' = reqs[i].next
  /\ LET r == reqs[i]
         done == [r EXCEPT !.pc = "done",
                           !.promise.state = "fulfilled",
                           !.promise.list = r.next,
                           !.resp = FulfilledResponse(r, r.promise.flag, r.next)]
     IN reqs' = RunNext([reqs EXCEPT ![i] = done], i)
  /\ UNCHANGED <<apiKey, writeQueue, clock, page>>

\* a storage call of command i rejects: its await throws
StorageRejects(i) ==
  /\ reqs[i].pc \in {"getConfig", "reading", "writing"}
  /\ LET r == reqs[i]
     IN IF r.promise.state = "pending"
          THEN LET done == [r EXCEPT !.pc = "done",
                                     !.promise.state = "rejected",
                                     !.promise.error = StorageError,
                                     !.resp = RejectedResponse(r, StorageError)]
               IN reqs' = RunNext([reqs EXCEPT ![i] = done], i)
          ELSE reqs' = [reqs EXCEPT ![i].pc = "done",
                                    ![i].resp = RejectedResponse(r, StorageError)]
  /\ UNCHANGED <<vocabList, apiKey, writeQueue, clock, page>>

\* the options page saves the trimmed apiKey input
OptionsSave(input) ==
  /\ apiKey' = trim(input)
  /\ apiKey' # apiKey
  /\ UNCHANGED <<vocabList, writeQueue, reqs, clock, page>>

Next ==
  \/ \E sel \in Selections : ReceiveTranslate(sel)
  \/ ReceiveScan
  \/ \E w \in DeleteWords : ReceiveDelete(w)
  \/ \E w \in UpdateWords, t \in Edits : ReceiveUpdate(w, t)
  \/ \E i \in 1..Len(reqs) : ConfigServed(i)
  \/ \E i \in 1..Len(reqs), h \in HttpResponses : FetchDone(i, h)
  \/ \E i \in 1..Len(reqs) : ReadServed(i)
  \/ \E i \in 1..Len(reqs) : WriteServed(i)
  \/ \E i \in 1..Len(reqs) : StorageRejects(i)
  \/ \E k \in ApiKeyInputs : OptionsSave(k)

Spec == Init /\ [][Next]_vars

\* The service worker starts with the vocabulary list an earlier run of it
\* left in chrome.storage.local.
StoredList ==
  << [word |-> <<"d","o","g">>, translation |-> <<"y">>, context |-> "p1",
      sourceUrl |-> "u1", addedAt |-> 0],
     [word |-> <<"C","a","t">>, translation |-> <<"z">>, context |-> "",
      sourceUrl |-> "u2", addedAt |-> 0] >>

InitStored ==
  /\ vocabList = StoredList
  /\ apiKey = <<"s","k">>
  /\ writeQueue = <<>>
  /\ reqs = <<>>
  /\ clock = 0
  /\ dom = <<>>
  /\ scans = <<>>
  /\ last = NoOperation
  /\ Declared

SpecStored == InitStored /\ [][Next]_vars

\* Every storage call and every fetch completes: it is served or it rejects.
Completes(i) ==
  /\ i \in 1..Len(reqs)
  /\ \/ ConfigServed(i) \/ ReadServed(i) \/ WriteServed(i) \/ StorageRejects(i)
     \/ \E h \in HttpResponses : FetchDone(i, h)

FairSpec == Spec /\ \A i \in 1..MaxReqs : WF_vars(Completes(i))

\* ------------------------------------------------------------------------
\* Properties
\* ------------------------------------------------------------------------
Ids == 1..Len(reqs)

Links == 1..Len(writeQueue)

Link(k) == reqs[writeQueue[k]]

\* a vocabulary operation is between its read and its write: its read was
\* issued and its write has not completed
BetweenReadAndWrite(r) ==
  r.type # "SCAN_PAGE" /\ r.pc \in {"reading", "writing"}

\* the list after the operations of the first k links of the chain were
\* applied one after another, in submission order, to the empty list; an
\* operation that has not been fulfilled contributes nothing
RECURSIVE Applied(_)
Applied(k) ==
  IF k = 0 THEN <<>>
  ELSE IF Link(k).promise.state = "fulfilled"
    THEN Operation(Link(k), Applied(k - 1), Link(k).now).list
    ELSE Applied(k - 1)

\* C1: at most one of the mutations upsert, remove and updateTranslation is
\* between its read of vocabList and its write of vocabList at any time.
C1_OneMutationAtATime ==
  Cardinality({i \in Ids : BetweenReadAndWrite(reqs[i])}) <= 1

\* a mutation is writing while another, submitted meanwhile, waits
C1_Witness ==
  \E i, j \in Ids : reqs[i].pc = "writing" /\ reqs[j].pc = "queued"

\* C2: the persisted list equals the list obtained by applying the
\* mutations one after another in submission order, whatever the order in
\* which the storage calls complete, and each caller receives the result
\* of its own operation applied to the list its predecessors left.
C2_SubmissionOrder ==
  /\ vocabList = Applied(Len(writeQueue))
  /\ \A k \in Links :
       Link(k).promise.state = "fulfilled" =>
         LET own == Operation(Link(k), Applied(k - 1), Link(k).now)
         IN /\ Link(k).promise.flag = own.flag
            /\ Link(k).promise.list = own.list
            /\ Link(k).resp = FulfilledResponse(Link(k), own.flag, own.list)

\* an updateTranslation submitted while the upsert of its word was pending
\* has found the word, and both are in the persisted list
C2_Witness ==
  /\ Len(writeQueue) = 2
  /\ Link(1).type = "TRANSLATE_WORD" /\ Link(1).promise.state = "fulfilled"
  /\ Link(2).type = "UPDATE_WORD" /\ Link(2).promise.state = "fulfilled"
  /\ Link(2).chainedAtIssue = 1 /\ Link(2).settledAtIssue = 0
  /\ Link(2).resp.success
  /\ Len(vocabList) = 1 /\ vocabList[1].translation = Link(2).translation

\* the operation of link k has read the list
HasRead(r) == r.now > 0

\* what C3 says of every state
C3_Safe ==
  \A k \in Links :
    \* the operation is run, it is not settled with the outcome of the
    \* operation before it
    /\ Link(k).pc # "skipped"
    \* it reads the list the fulfilled operations before it wrote: a failed
    \* operation left the list unchanged
    /\ HasRead(Link(k)) => Link(k).read = Applied(k - 1)
    \* a failure is the failure of the storage call of the operation itself
    /\ Link(k).promise.state = "rejected" =>
         /\ Link(k).promise.error = StorageError
         /\ \A j \in Links :
              j > k /\ Link(j).promise.state = "fulfilled" =>
                Link(j).resp = FulfilledResponse(Link(j), Link(j).promise.flag,
                                                 Link(j).promise.list)

Chained(i) == i \in Ids /\ reqs[i].promise.state # "none"

\* C3: when a queued store operation fails, every operation enqueued after
\* it still eventually runs, against the list the failed operation left
\* unchanged, and completes with its own result; the failure goes to the
\* caller of the failed operation only.
C3_FailureDoesNotPoison ==
  /\ []C3_Safe
  /\ \A i, j \in 1..MaxReqs :
       (/\ Chained(i) /\ Chained(j) /\ Position(i) < Position(j)
        /\ reqs[i].promise.state = "rejected"
        /\ reqs[j].promise.state = "pending")
         ~> (Chained(j) /\ reqs[j].pc = "done" /\ Settled(reqs[j]))

\* a remove submitted while an operation that then failed was pending has
\* been answered with its own result
C3_Witness ==
  /\ Len(writeQueue) = 2
  /\ Link(1).promise.state = "rejected"
  /\ Link(2).type = "DELETE_WORD"
  /\ Link(2).chainedAtIssue = 1 /\ Link(2).settledAtIssue = 0
  /\ Link(2).promise.state = "fulfilled"
  /\ Link(2).resp.kind = "result" /\ Link(2).resp.success

Answered(r) == r.type = "SCAN_PAGE" /\ r.resp.kind = "list"

\* C4 as amended: a list read is not queued; it answers the persisted list
\* as it is when its storage read is served, which is the list after the
\* mutations that had completed by then, among them every mutation that had
\* completed when the list read was issued.
C4_ListReadSeesCompletedWrites ==
  \A s \in Ids :
    Answered(reqs[s]) =>
      \E n \in reqs[s].settledAtIssue..NumSettled :
        reqs[s].resp.list = Applied(n)

\* C4 as claimed: a list read issued after a mutation was submitted answers
\* a list that contains the effect of that mutation, and of every mutation
\* submitted before it.
C4_ListReadQueuedBehindWriters ==
  \A s \in Ids :
    (/\ Answered(reqs[s])
     /\ \A k \in 1..reqs[s].chainedAtIssue : Settled(Link(k))) =>
      \E n \in reqs[s].chainedAtIssue..Len(writeQueue) :
        reqs[s].resp.list = Applied(n)

\* a list read issued while an upsert was pending answered the list without
\* the entry, and the upsert has then written it
C4_Witness ==
  \E s \in Ids :
    /\ Answered(reqs[s])
    /\ reqs[s].chainedAtIssue = 1 /\ reqs[s].settledAtIssue = 0
    /\ Link(1).type = "TRANSLATE_WORD" /\ Link(1).promise.state = "fulfilled"
    /\ reqs[s].resp.list = <<>>
    /\ Len(vocabList) = 1

SameWord(a, b) == toLowerCase(a) = toLowerCase(b)

NoDuplicates(list) ==
  \A i, j \in 1..Len(list) : i # j => ~SameWord(list[i].word, list[j].word)

\* C5: the persisted list has at most one entry per case-insensitive word.
C5_OneEntryPerWord == NoDuplicates(vocabList)

\* the same word was upserted in two spellings, and the list has one entry
C5_Witness ==
  \E i, j \in Ids :
    /\ reqs[i].type = "TRANSLATE_WORD" /\ reqs[i].promise.state = "fulfilled"
    /\ reqs[j].type = "TRANSLATE_WORD" /\ reqs[j].promise.state = "fulfilled"
    /\ reqs[i].word # reqs[j].word /\ SameWord(reqs[i].word, reqs[j].word)
    /\ Len(vocabList) = 1

\* the step in which the write of the operation of command i is served
Writes(i) ==
  /\ reqs[i].pc = "writing"
  /\ reqs'[i].pc = "done"
  /\ reqs'[i].promise.state = "fulfilled"

Matches(list, word) == {k \in 1..Len(list) : SameWord(list[k].word, word)}

\* C6: upsert of a word that matches an entry answers updated=true, keeps
\* the addedAt and the position of the entry and the number of entries;
\* upsert of a word that matches no entry answers updated=false and appends
\* one entry whose addedAt is the current time, the others unchanged.
C6_Upsert ==
  [][\A i \in Ids :
       (Writes(i) /\ reqs[i].type = "TRANSLATE_WORD") =>
         LET w == reqs[i].word
             m == Matches(vocabList, w)
         IN IF m # {}
              THEN /\ reqs'[i].resp.updated
                   /\ Len(vocabList') = Len(vocabList)
                   /\ \A k \in m :
                        /\ SameWord(vocabList'[k].word, w)
                        /\ vocabList'[k].addedAt = vocabList[k].addedAt
              ELSE /\ ~reqs'[i].resp.updated
                   /\ Len(vocabList') = Len(vocabList) + 1
                   /\ SubSeq(vocabList', 1, Len(vocabList)) = vocabList
                   /\ vocabList'[Len(vocabList')].word = w
                   /\ vocabList'[Len(vocabList')].addedAt = clock
    ]_vars

\* an upsert of the first of two stored entries was answered updated=true
C6_Witness ==
  \E i \in Ids :
    /\ reqs[i].type = "TRANSLATE_WORD"
    /\ reqs[i].resp.kind = "translated" /\ reqs[i].resp.updated
    /\ Len(reqs[i].read) = 2
    /\ SameWord(reqs[i].read[1].word, reqs[i].word)
    /\ reqs[i].now > reqs[i].read[1].addedAt

\* C7: after remove(word) the persisted list has no entry that matches
\* word, every other entry is unchanged and in the same order, and the list
\* is the list before the call when no entry matched.
C7_Remove ==
  [][\A i \in Ids :
       (Writes(i) /\ reqs[i].type = "DELETE_WORD") =>
         LET w == reqs[i].word
         IN /\ Matches(vocabList', w) = {}
            /\ vocabList' = SelectSeq(vocabList, LAMBDA e : ~SameWord(e.word, w))
            /\ Matches(vocabList, w) = {} => vocabList' = vocabList
            /\ reqs'[i].resp.list = vocabList'
    ]_vars

\* a remove in another spelling removed one of two stored entries
C7_Witness ==
  \E i \in Ids :
    /\ reqs[i].type = "DELETE_WORD" /\ reqs[i].resp.kind = "result"
    /\ Len(reqs[i].read) = 2 /\ Len(reqs[i].resp.list) = 1
    /\ \A k \in 1..2 : reqs[i].read[k].word # reqs[i].word

\* C8: updateTranslation changes only the translation of the entry that
\* matches word and answers success=true; when no entry matches it answers
\* success=false and the persisted list is the list before the call.
C8_UpdateTranslation ==
  [][\A i \in Ids :
       (Writes(i) /\ reqs[i].type = "UPDATE_WORD") =>
         LET w == reqs[i].word
             m == Matches(vocabList, w)
         IN IF m # {}
              THEN /\ reqs'[i].resp.success
                   /\ Len(vocabList') = Len(vocabList)
                   /\ \A k \in 1..Len(vocabList) :
                        vocabList'[k] =
                          IF k \in m
                            THEN [vocabList[k] EXCEPT
                                    !.translation = reqs[i].translation]
                            ELSE vocabList[k]
              ELSE /\ ~reqs'[i].resp.success
                   /\ vocabList' = vocabList
    ]_vars

\* an updateTranslation in another spelling changed the translation of one
\* of two stored entries
C8_Witness ==
  \E i \in Ids :
    /\ reqs[i].type = "UPDATE_WORD" /\ reqs[i].resp.kind = "result"
    /\ reqs[i].resp.success
    /\ Len(reqs[i].read) = 2
    /\ \E k \in 1..2 :
         /\ SameWord(reqs[i].read[k].word, reqs[i].word)
         /\ reqs[i].read[k].word # reqs[i].word
         /\ reqs[i].read[k].translation # reqs[i].translation
         /\ reqs[i].resp.list[k].translation = reqs[i].translation

\* C9 as claimed: the context and the sourceUrl of an entry never change
\* for as long as the entry exists.
C9_ContextNeverChanges ==
  [][\A k \in 1..Len(vocabList), n \in 1..Len(vocabList') :
       SameWord(vocabList[k].word, vocabList'[n].word) =>
         /\ vocabList'[n].context = vocabList[k].context
         /\ vocabList'[n].sourceUrl = vocabList[k].sourceUrl
    ]_vars

\* C9 as amended: the addedAt of an entry never changes for as long as the
\* entry exists, and its context and sourceUrl are changed only by an
\* upsert of the same word, which replaces them by the context and the
\* sourceUrl of that upsert; updateTranslation and remove of other words
\* never change them.
C9_OnlyUpsertChangesContext ==
  [][\A k \in 1..Len(vocabList), n \in 1..Len(vocabList') :
       SameWord(vocabList[k].word, vocabList'[n].word) =>
         /\ vocabList'[n].addedAt = vocabList[k].addedAt
         /\ (\/ vocabList'[n].context # vocabList[k].context
             \/ vocabList'[n].sourceUrl # vocabList[k].sourceUrl) =>
              \E i \in Ids :
                /\ Writes(i)
                /\ reqs[i].type = "TRANSLATE_WORD"
                /\ SameWord(reqs[i].word, vocabList[k].word)
                /\ vocabList'[n].context = reqs[i].paragraph
                /\ vocabList'[n].sourceUrl = reqs[i].sourceUrl
    ]_vars

\* an upsert has replaced the context and the sourceUrl of a stored entry
C9_Witness ==
  \E i \in Ids :
    /\ reqs[i].type = "TRANSLATE_WORD" /\ reqs[i].resp.kind = "translated"
    /\ reqs[i].resp.updated
    /\ \E k \in 1..Len(reqs[i].read) :
         /\ SameWord(reqs[i].read[k].word, reqs[i].word)
         /\ reqs[i].read[k].context # reqs[i].paragraph
         /\ reqs[i].read[k].sourceUrl # reqs[i].sourceUrl
         /\ vocabList[k].context = reqs[i].paragraph
         /\ vocabList[k].sourceUrl = reqs[i].sourceUrl

\* C10: when the stored apiKey is empty, TRANSLATE_WORD is answered with
\* success=false and the message about the API key, translateWord is not
\* called, nothing is chained on writeQueue and the persisted list is
\* unchanged; the command does nothing after its answer.
C10_NoKeyNoTranslation ==
  [][\A i \in Ids :
       /\ (ConfigServed(i) /\ apiKey = <<>>) =>
            /\ reqs'[i].pc = "done"
            /\ reqs'[i].resp.kind = "error"
            /\ ~reqs'[i].resp.success
            /\ reqs'[i].resp.error = NoApiKeyError
            /\ vocabList' = vocabList
            /\ writeQueue' = writeQueue
       /\ reqs[i].resp.error = NoApiKeyError => reqs'[i] = reqs[i]
    ]_vars

\* a TRANSLATE_WORD was answered with the message about the API key
C10_Witness ==
  \E i \in Ids :
    /\ reqs[i].type = "TRANSLATE_WORD"
    /\ reqs[i].resp.error = NoApiKeyError
    /\ reqs[i].promise.state = "none"
    /\ vocabList = <<>>

\* a command whose handler has returned and whose promises have settled
Finished(r) == r.pc \in {"done", "skipped"}

\* C11: every inbound command receives a response, and a command whose
\* storage read, storage write or translation call failed receives the
\* explicit failure: success=false with the message of the exception.
C11_EveryCommandAnswered ==
  \A i \in Ids :
    Finished(reqs[i]) =>
      /\ reqs[i].resp.kind # "none"
      /\ reqs[i].promise.state = "rejected" =>
           /\ reqs[i].resp.kind = "error"
           /\ ~reqs[i].resp.success
           /\ reqs[i].resp.error = reqs[i].promise.error

\* the translation call of http fails: the fetch rejects, the status is not
\* a success, the body is not JSON or has no choices, or the text is empty
TranslationFails(http) ==
  \/ ~http.net
  \/ ~http.ok
  \/ ~http.json
  \/ ~http.hasChoices
  \/ Len(http.choices) = 0
  \/ ~http.choices[1].hasContent
  \/ \A k \in 1..Len(http.choices[1].content) : IsSpace(http.choices[1].content[k])

\* C12: when the translation call of a TRANSLATE_WORD fails, the persisted
\* list stays as it was, nothing is chained on writeQueue, and the failure
\* is in the response of that command only; the command does nothing more.
C12_FailedTranslationKeepsList ==
  [][\A i \in Ids :
       /\ \A h \in HttpResponses :
            (FetchDone(i, h) /\ TranslationFails(h)) =>
              /\ vocabList' = vocabList
              /\ writeQueue' = writeQueue
              /\ reqs'[i].pc = "done"
              /\ reqs'[i].promise.state = "none"
              /\ reqs'[i].resp.kind = "error"
              /\ ~reqs'[i].resp.success
              /\ reqs'[i].resp.error # ""
              /\ \A j \in Ids \ {i} : reqs'[j] = reqs[j]
       /\ (reqs[i].pc = "done" /\ reqs[i].promise.state = "none") =>
            reqs'[i] = reqs[i]
    ]_vars

\* a TRANSLATE_WORD was answered with the failure of its translation call
\* while the list holds an entry saved before
C12_Witness ==
  \E i \in Ids :
    /\ reqs[i].type = "TRANSLATE_WORD"
    /\ reqs[i].pc = "done"
    /\ reqs[i].resp.kind = "error"
    /\ reqs[i].resp.error \notin {NoApiKeyError, StorageError}
    /\ reqs[i].promise.state = "none"
    /\ vocabList = StoredList

\* ------------------------------------------------------------------------
\* Content script: the page
\* ------------------------------------------------------------------------
\* number of calls of scanPageForVocab on one page, the one at load included
MaxScans == 2

\* A node of the page: a text node, or a mark.vh-highlight element with its
\* dataset (vhWord, vhTranslation) and its child nodes.
TextNode(text) ==
  [kind |-> "text", text |-> text, word |-> <<>>, translation |-> <<>>,
   kids |-> <<>>]

\* document.createElement("mark") with className vh-highlight, textContent
\* text and the dataset word, translation
Mark(text, word, translation) ==
  [kind |-> "mark", text |-> <<>>, word |-> word, translation |-> translation,
   kids |-> << TextNode(text) >>]

\* An element of the page with its child nodes; root is TRUE inside
\* #vocab-highlighter-root and highlight is TRUE for a mark.vh-highlight.
Element(tag, editable, kids) ==
  [tag |-> tag, root |-> FALSE, editable |-> editable, highlight |-> FALSE,
   kids |-> kids]

\* a mark as the parent element of its child nodes
Parent(node) ==
  [tag |-> "MARK", root |-> FALSE, editable |-> FALSE, highlight |-> TRUE,
   kids |-> node.kids]

SKIP_ELEMENTS ==
  { "SCRIPT", "STYLE", "TEXTAREA", "INPUT", "SELECT", "NOSCRIPT", "SVG",
    "CANVAS", "VIDEO", "AUDIO", "IFRAME", "OBJECT", "EMBED" }

\* The pages the content script is loaded into.
\* <p>category the cat sat</p>
PageCategory ==
  << Element("P", FALSE,
       << TextNode(<<"c","a","t","e","g","o","r","y"," ","t","h","e"," ",
                     "c","a","t"," ","s","a","t">>) >>) >>

\* a paragraph a script built from two adjacent text nodes, "ca" and "t dog"
PageSplit ==
  << Element("P", FALSE,
       << TextNode(<<"c","a">>), TextNode(<<"t"," ","d","o","g">>) >>) >>

\* <p>a well-known Cat</p><script>cat</script><div contenteditable>dog</div>
PageWellKnown ==
  << Element("P", FALSE,
       << TextNode(<<"a"," ","w","e","l","l","-","k","n","o","w","n"," ",
                     "C","a","t">>) >>),
     Element("SCRIPT", FALSE, << TextNode(<<"c","a","t">>) >>),
     Element("DIV", TRUE, << TextNode(<<"d","o","g">>) >>) >>

Pages == { PageCategory, PageSplit, PageWellKnown }

\* an entry of the vocabulary list as saveVocabEntry stores it
Entry(word, translation) ==
  [word |-> word, translation |-> translation, context |-> "p1",
   sourceUrl |-> "u1", addedAt |-> 0]

\* The vocabulary lists the service worker answers SCAN_PAGE with.
ScanLists ==
  { <<>>,
    << Entry(<<"c","a","t">>, <<"z">>) >>,
    StoredList,
    << Entry(<<"w","e","l","l">>, <<"y">>),
       Entry(<<"w","e","l","l","-","k","n","o","w","n">>, <<"z">>) >>,
    << Entry(<<"w","e","l","l","-","k","n","o","w","n">>, <<"z">>),
       Entry(<<"w","e","l","l">>, <<"y">>) >> }

\* word and translation of the TRANSLATE_WORD responses with success
Translated ==
  { [word |-> <<"c","a","t">>, translation |-> <<"y">>],
    [word |-> <<"d","o","g">>, translation |-> <<"y">>] }

\* ------------------------------------------------------------------------
\* Content script: the highlight pattern
\* ------------------------------------------------------------------------
\* the characters of the class [.*+?^${}()|[\]\\]
RegExpSpecials ==
  { ".", "*", "+", "?", "^", "$", "{", "}", "(", ")", "|", "[", "]", "\\" }

\* word.replace(/[.*+?^${}()|[\]\\]/g, "\\$&")
RECURSIVE escapeRegExp(_)
escapeRegExp(word) ==
  IF word = <<>> THEN <<>>
  ELSE (IF Head(word) \in RegExpSpecials THEN << "\\", Head(word) >>
                                          ELSE << Head(word) >>)
       \o escapeRegExp(Tail(word))

\* the characters an alternative of the compiled pattern matches: an
\* escaped character stands for itself
RECURSIVE Literal(_)
Literal(source) ==
  IF source = <<>> THEN <<>>
  ELSE IF Head(source) = "\\" /\ Len(source) > 1
    THEN << source[2] >> \o Literal(Tail(Tail(source)))
    ELSE << Head(source) >> \o Literal(Tail(source))

\* the alternatives of new RegExp("\\b(" + escaped.join("|") + ")\\b", "gi")
Alternatives(words) ==
  [k \in 1..Len(words) |-> Literal(escapeRegExp(words[k]))]

\* the class \w
WordChars ==
  { "a","b","c","d","e","f","g","h","i","j","k","l","m","n","o","p","q","r",
    "s","t","u","v","w","x","y","z",
    "A","B","C","D","E","F","G","H","I","J","K","L","M","N","O","P","Q","R",
    "S","T","U","V","W","X","Y","Z",
    "0","1","2","3","4","5","6","7","8","9","_" }

\* the character at index i (from 0) of text is of the class \w
IsWordChar(text, i) == i >= 0 /\ i < Len(text) /\ text[i + 1] \in WordChars

\* \b without the test of the two sides
wordBoundaryAnywhere(text, i) == TRUE

\* \b at index i of text
wordBoundary(text, i) == IsWordChar(text, i - 1) # IsWordChar(text, i)

\* the alternative lit matches at index i of text, ignoring case
matchesLiteral(text, i, lit) ==
  /\ i + Len(lit) <= Len(text)
  /\ \A k \in 1..Len(lit) : LowerChar(text[i + k]) = LowerChar(lit[k])

\* the alternatives that match at index i of text between two \b
MatchingAt(text, i, alts) ==
  IF ~wordBoundary(text, i) THEN {}
  ELSE { k \in 1..Len(alts) :
           /\ matchesLiteral(text, i, alts[k])
           /\ wordBoundary(text, i + Len(alts[k])) }

\* the alternative the pattern matches with at index i: the first in the
\* order of the alternation that matches; 0 if none does
matchAt(text, i, alts) ==
  LET ks == MatchingAt(text, i, alts)
  IN IF ks = {} THEN 0 ELSE CHOOSE k \in ks : \A j \in ks : k <= j

\* pattern.exec(text) with pattern.lastIndex = lastIndex: the first match at
\* or after lastIndex; index -1 stands for null
RECURSIVE exec(_, _, _)
exec(text, lastIndex, alts) ==
  IF lastIndex > Len(text) THEN [index |-> -1, length |-> 0]
  ELSE LET k == matchAt(text, lastIndex, alts)
       IN IF k # 0 THEN [index |-> lastIndex, length |-> Len(alts[k])]
          ELSE exec(text, lastIndex + 1, alts)

\* the matches of the loop while ((match = pattern.exec(text)) !== null)
RECURSIVE execAll(_, _, _)
execAll(text, lastIndex, alts) ==
  LET m == exec(text, lastIndex, alts)
  IN IF m.index = -1 THEN <<>>
     ELSE << m >> \o execAll(text, m.index + m.length, alts)

\* text.slice(from, to)
slice(text, from, to) == SubSeq(text, from + 1, to)

\* ------------------------------------------------------------------------
\* Content script: highlighting
\* ------------------------------------------------------------------------
\* node.textContent
RECURSIVE textContent(_)
RECURSIVE textOfKids(_)
textContent(node) ==
  IF node.kind = "text" THEN node.text ELSE textOfKids(node.kids)

textOfKids(kids) ==
  IF kids = <<>> THEN <<>> ELSE textContent(Head(kids)) \o textOfKids(Tail(kids))

\* the acceptNode filter without the test of the class vh-highlight
acceptNodeIntoMarks(parent) ==
  /\ parent.tag \notin SKIP_ELEMENTS
  /\ ~parent.root
  /\ ~parent.editable

\* the acceptNode filter of the TreeWalker on a text node with that parent
acceptNode(parent) ==
  /\ parent.tag \notin SKIP_ELEMENTS
  /\ ~parent.root
  /\ ~parent.highlight
  /\ ~parent.editable

\* vocabMap.get(key) of the map built by vocabMap.set(entry.word
\* .toLowerCase(), entry) over the list: the index of the last entry with
\* that key, 0 for undefined
vocabMapGet(list, key) ==
  LET ks == { k \in 1..Len(list) : toLowerCase(list[k].word) = key }
  IN IF ks = {} THEN 0 ELSE CHOOSE k \in ks : \A j \in ks : j <= k

\* What a run of the wrapping loop is called with: scanPageForVocab with the
\* vocabulary list, highlightSingleWord with one word and its translation.
ScanMode(list) ==
  [single |-> FALSE, word |-> <<>>, translation |-> <<>>, list |-> list]

SingleMode(word, translation) ==
  [single |-> TRUE, word |-> word, translation |-> translation, list |-> <<>>]

\* the words the pattern is built from
PatternWords(mode) ==
  IF mode.single THEN << mode.word >>
  ELSE [k \in 1..Len(mode.list) |-> mode.list[k].word]

\* the mark created for the matched text
markFor(matched, mode) ==
  IF mode.single THEN Mark(matched, mode.word, mode.translation)
  ELSE LET k == vocabMapGet(mode.list, toLowerCase(matched))
       IN IF k = 0 THEN Mark(matched, <<>>, <<>>)
          ELSE Mark(matched, mode.list[k].word, mode.list[k].translation)

\* the DocumentFragment built from the matches ms of text, from match j on
RECURSIVE fragment(_, _, _, _, _)
fragment(text, ms, j, lastIndex, mode) ==
  IF j > Len(ms)
    THEN IF lastIndex < Len(text)
           THEN << TextNode(slice(text, lastIndex, Len(text))) >> ELSE <<>>
    ELSE (IF ms[j].index > lastIndex
            THEN << TextNode(slice(text, lastIndex, ms[j].index)) >> ELSE <<>>)
         \o << markFor(slice(text, ms[j].index, ms[j].index + ms[j].length), mode) >>
         \o fragment(text, ms, j + 1, ms[j].index + ms[j].length, mode)

\* the nodes a collected text node is replaced by; a text node without a
\* match stays
wrapText(node, alts, mode) ==
  LET ms == execAll(node.text, 0, alts)
  IN IF ms = <<>> THEN << node >> ELSE fragment(node.text, ms, 1, 0, mode)

\* the loop over the text nodes the TreeWalker accepted, on the children of
\* parent
RECURSIVE wrapKids(_, _, _, _)
wrapKids(kids, parent, alts, mode) ==
  IF kids = <<>> THEN <<>>
  ELSE LET n == Head(kids)
       IN (IF n.kind = "text"
             THEN IF acceptNode(parent) THEN wrapText(n, alts, mode) ELSE << n >>
             ELSE << [n EXCEPT !.kids = wrapKids(n.kids, Parent(n), alts, mode)] >>)
          \o wrapKids(Tail(kids), parent, alts, mode)

\* the page after the wrapping loop of scanPageForVocab or highlightSingleWord
wrapAll(d, mode) ==
  [e \in DOMAIN d |->
     [d[e] EXCEPT !.kids = wrapKids(d[e].kids, d[e],
                                    Alternatives(PatternWords(mode)), mode)]]

highlightSingleWord(d, word, translation) ==
  wrapAll(d, SingleMode(word, translation))

\* parent.normalize(): adjacent text nodes are merged, empty ones removed
RECURSIVE normalize(_)
normalize(kids) ==
  IF kids = <<>> THEN <<>>
  ELSE IF Head(kids).kind = "text" /\ Head(kids).text = <<>>
    THEN normalize(Tail(kids))
  ELSE IF /\ Len(kids) > 1
          /\ Head(kids).kind = "text"
          /\ kids[2].kind = "text"
    THEN normalize(<< TextNode(Head(kids).text \o kids[2].text) >>
                   \o Tail(Tail(kids)))
  ELSE << Head(kids) >> \o normalize(Tail(kids))

\* mark.textContent === word
sameSurfaceCaseSensitive(mark, word) == textContent(mark) = word

\* mark.textContent.toLowerCase() === lowerWord
sameSurface(mark, word) == toLowerCase(textContent(mark)) = toLowerCase(word)

\* What marks a removal takes: removeHighlights every mark,
\* removeHighlightForWord those with the surface text of word.
Selected(mark, sel) == sel.all \/ sameSurface(mark, sel.word)

\* parent.replaceChild(document.createTextNode(mark.textContent), mark) for
\* the selected marks among kids, and parent.normalize() where one was
\* replaced
RECURSIVE replaceMarks(_, _)
RECURSIVE unwrapKids(_, _)
replaceMarks(kids, sel) ==
  IF kids = <<>> THEN <<>>
  ELSE LET n == Head(kids)
       IN << IF n.kind = "mark"
               THEN IF Selected(n, sel) THEN TextNode(textContent(n))
                    ELSE [n EXCEPT !.kids = unwrapKids(n.kids, sel)]
               ELSE n >>
          \o replaceMarks(Tail(kids), sel)

unwrapKids(kids, sel) ==
  IF \E k \in 1..Len(kids) : kids[k].kind = "mark" /\ Selected(kids[k], sel)
    THEN normalize(replaceMarks(kids, sel))
    ELSE replaceMarks(kids, sel)

removeHighlights(d) ==
  [e \in DOMAIN d |->
     [d[e] EXCEPT !.kids = unwrapKids(d[e].kids, [all |-> TRUE, word |-> <<>>])]]

removeHighlightForWord(d, word) ==
  [e \in DOMAIN d |->
     [d[e] EXCEPT !.kids = unwrapKids(d[e].kids, [all |-> FALSE, word |-> word])]]

\* the number of mark.vh-highlight elements among kids and below
RECURSIVE numMarks(_)
numMarks(kids) ==
  IF kids = <<>> THEN 0
  ELSE (IF Head(kids).kind = "mark" THEN 1 + numMarks(Head(kids).kids) ELSE 0)
       + numMarks(Tail(kids))

RECURSIVE NumMarksFrom(_, _)
NumMarksFrom(d, e) ==
  IF e > Len(d) THEN 0 ELSE numMarks(d[e].kids) + NumMarksFrom(d, e + 1)

\* document.querySelectorAll("mark.vh-highlight").length
NumMarks(d) == NumMarksFrom(d, 1)

\* the markers of the page: element, offset in the text of the element,
\* surface text, word key, translation, and the number of markers around
RECURSIVE markersOf(_, _, _, _)
markersOf(kids, e, offset, depth) ==
  IF kids = <<>> THEN {}
  ELSE LET n == Head(kids)
       IN (IF n.kind = "mark"
             THEN { [elem |-> e, offset |-> offset, text |-> textContent(n),
                     word |-> n.word, translation |-> n.translation,
                     depth |-> depth] }
                  \cup markersOf(n.kids, e, offset, depth + 1)
             ELSE {})
          \cup markersOf(Tail(kids), e, offset + Len(textContent(n)), depth)

Markers(d) == UNION { markersOf(d[e].kids, e, 0, 0) : e \in DOMAIN d }

\* the text of the page, element by element
PageText(d) == [e \in DOMAIN d |-> textOfKids(d[e].kids)]

\* ------------------------------------------------------------------------
\* Content script: actions
\* ------------------------------------------------------------------------
\* the state of the service worker and of the options page
store == <<vocabList, apiKey, writeQueue, reqs, clock>>

\* the state of the badge
badge == <<badges, activeBadge>>

\* the state of the popup controller
controller ==
  <<popup, currentWord, currentParagraph, isTranslating, calls, selection>>

\* A call of scanPageForVocab on the page d: it has removed the highlights
\* and awaits the response of SCAN_PAGE.  before are the markers the page
\* had at the call, kept as long as the scan waits; count is its matchCount.
NewScan(d) == [pc |-> "waiting", before |-> Markers(d), count |-> 0]

\* the operation that acted last, with the word and translation it was
\* called with and the number of markers it added or removed
Operated(op, word, translation, count) ==
  [op |-> op, word |-> word, translation |-> translation, count |-> count]

\* The content script was loaded into a page: its last statement has called
\* scanPageForVocab.
InitPage ==
  /\ vocabList = <<>>
  /\ apiKey = <<>>
  /\ writeQueue = <<>>
  /\ reqs = <<>>
  /\ clock = 0
  /\ dom \in Pages
  /\ scans = << NewScan(dom) >>
  /\ last = Operated("removeAll", <<>>, <<>>, 0)
  /\ Declared

\* showBadge(count) called by scan s: the badge activeBadge refers to is
\* removed from the page, a new badge with the count is appended to
\* document.body and becomes activeBadge.  A badge is named by the scan
\* that created it; fade is its class vh-fade-out.  The timers of a badge
\* that is no longer on the page do nothing: they are not kept.
\* showBadge that leaves the active badge on the page
showBadgeKeepsOld(s, count) ==
  /\ badges' = badges \cup {[id |-> s, count |-> count, fade |-> FALSE]}
  /\ activeBadge' = s

showBadge(s, count) ==
  /\ badges' = {b \in badges : b.id # activeBadge}
                 \cup {[id |-> s, count |-> count, fade |-> FALSE]}
  /\ activeBadge' = s

\* onMessage TRIGGER_SCAN: scanPageForVocab runs up to its await, that is
\* removeHighlights and the sending of SCAN_PAGE
TriggerScan ==
  /\ Len(scans) < MaxScans
  /\ dom' = removeHighlights(dom)
  /\ scans' = Append(scans, NewScan(dom))
  /\ last' = Operated("removeAll", <<>>, <<>>, 0)
  /\ UNCHANGED <<store, badge, controller>>

\* the response of SCAN_PAGE of scan s arrives with the list: an empty list
\* ends the scan, another one is matched against the text nodes and the
\* badge is shown when there was a match
ScanListArrives(s, list) ==
  /\ scans[s].pc = "waiting"
  /\ dom' = IF Len(list) = 0 THEN dom ELSE wrapAll(dom, ScanMode(list))
  /\ scans' = [scans EXCEPT ![s].pc = "done",
                            ![s].before = {},
                            ![s].count = NumMarks(dom') - NumMarks(dom)]
  /\ last' = Operated("scan", <<>>, <<>>, 0)
  /\ IF scans'[s].count > 0
       THEN showBadge(s, scans'[s].count)
       ELSE UNCHANGED badge
  /\ UNCHANGED <<store, controller>>

\* the request of scan s resolves without a response (!vocabList)
ScanNoList(s) ==
  /\ scans[s].pc = "waiting"
  /\ scans' = [scans EXCEPT ![s].pc = "nothing", ![s].before = {}]
  /\ last' = Operated("scanFailed", <<>>, <<>>, 0)
  /\ UNCHANGED <<dom, store, badge, controller>>

\* the request of scan s rejects: the await throws
ScanRejects(s) ==
  /\ scans[s].pc = "waiting"
  /\ scans' = [scans EXCEPT ![s].pc = "rejected", ![s].before = {}]
  /\ last' = Operated("scanFailed", <<>>, <<>>, 0)
  /\ UNCHANGED <<dom, store, badge, controller>>

\* the response of TRANSLATE_WORD arrives with success: requestTranslation
\* shows the result and calls highlightSingleWord
TranslateResult(t) ==
  /\ dom' = highlightSingleWord(dom, t.word, t.translation)
  /\ last' = Operated("highlightOne", t.word, t.translation,
                      NumMarks(dom') - NumMarks(dom))
  /\ UNCHANGED <<scans, store, badge, controller>>

\* onMessage REMOVE_HIGHLIGHT
RemoveHighlight(word) ==
  /\ dom' = removeHighlightForWord(dom, word)
  /\ last' = Operated("removeForWord", word, <<>>,
                      NumMarks(dom) - NumMarks(dom'))
  /\ UNCHANGED <<scans, store, badge, controller>>

\* the first timer of showBadge, 5000 ms after it: the badge fades
BadgeFades(b) ==
  /\ b \in badges
  /\ ~b.fade
  /\ badges' = (badges \ {b}) \cup {[b EXCEPT !.fade = TRUE]}
  /\ UNCHANGED <<activeBadge, dom, scans, last, store, controller>>

\* the second timer, 500 ms after the first: the badge is removed, and
\* activeBadge is cleared when it still refers to this badge
BadgeRemoved(b) ==
  /\ b \in badges
  /\ b.fade
  /\ badges' = badges \ {b}
  /\ activeBadge' = IF activeBadge = b.id THEN 0 ELSE activeBadge
  /\ UNCHANGED <<dom, scans, last, store, controller>>

NextPage ==
  \/ TriggerScan
  \/ \E s \in 1..Len(scans), list \in ScanLists : ScanListArrives(s, list)
  \/ \E s \in 1..Len(scans) : ScanNoList(s)
  \/ \E s \in 1..Len(scans) : ScanRejects(s)
  \/ \E t \in Translated : TranslateResult(t)
  \/ \E w \in DeleteWords : RemoveHighlight(w)

SpecPage == InitPage /\ [][NextPage]_vars

\* the page with the timers of the badge
NextBadge ==
  \/ NextPage
  \/ \E b \in badges : BadgeFades(b)
  \/ \E b \in badges : BadgeRemoved(b)

SpecBadge == InitPage /\ [][NextBadge]_vars

\* a timer that was set fires
FairSpecBadge ==
  /\ SpecBadge
  /\ \A s \in 1..MaxScans :
       WF_vars(\E b \in badges :
                 b.id = s /\ (BadgeFades(b) \/ BadgeRemoved(b)))

\* ------------------------------------------------------------------------
\* Properties of the content script
\* ------------------------------------------------------------------------
ScanIds == 1..Len(scans)

\* C13: when a full scan fails, its request for the vocabulary list
\* rejecting or resolving with nothing, the markers that were on the page
\* when the scan was called are on the page when it ends.
C13_FailedScanKeepsMarkers ==
  [][\A s \in ScanIds :
       (ScanNoList(s) \/ ScanRejects(s)) => scans[s].before \subseteq Markers(dom')
    ]_vars

\* the page after one more call of scanPageForVocab on the page d that is
\* answered list: TriggerScan, then ScanListArrives with nothing in between
ScanAgain(d, list) ==
  IF Len(list) = 0 THEN removeHighlights(d)
  ELSE wrapAll(removeHighlights(d), ScanMode(list))

\* C14: a full scan run once more on the page it left, with the same
\* vocabulary list, leaves the same markers (element, offset, surface text,
\* word key, translation) and counts the same number of matches.
C14_ScanTwiceSame ==
  [][\A s \in ScanIds, list \in ScanLists :
       (ScanListArrives(s, list) /\ NumMarks(dom) = 0) =>
         /\ Markers(ScanAgain(dom', list)) = Markers(dom')
         /\ NumMarks(ScanAgain(dom', list)) = scans'[s].count
    ]_vars

\* C15: no operation of the content script changes the text of the page,
\* and removeHighlights on the page a full scan left removes every marker
\* and gives back, in every element the scan rewrote, the text nodes the
\* element had before the scan.
C15_TextRestored ==
  [][/\ PageText(dom') = PageText(dom)
     /\ \A s \in ScanIds, list \in ScanLists :
          (ScanListArrives(s, list) /\ NumMarks(dom) = 0) =>
            /\ NumMarks(removeHighlights(dom')) = 0
            /\ \A e \in DOMAIN dom :
                 dom'[e].kids # dom[e].kids =>
                   removeHighlights(dom')[e].kids = dom[e].kids
    ]_vars

\* the characters of the element a marker wraps
Wrapped(m) == (m.offset + 1)..(m.offset + Len(m.text))

\* C16: whatever operations ran on the page, in whatever order, no marker
\* is inside another marker and no character of the page is wrapped by
\* more than one marker.
C16_NoNestedMarkers ==
  /\ \A m \in Markers(dom) : m.depth = 0
  /\ \A m, n \in Markers(dom) :
       (m # n /\ m.elem = n.elem) => Wrapped(m) \cap Wrapped(n) = {}

\* highlightSingleWord has added markers to a page a full scan had left
\* markers on
C16_Witness ==
  /\ last.op = "highlightOne"
  /\ last.count > 0
  /\ NumMarks(dom) > last.count
  /\ \E s \in ScanIds : scans[s].pc = "done" /\ scans[s].count > 0

Letters ==
  WordChars \ { "0","1","2","3","4","5","6","7","8","9","_" }

LettersOnly(word) == \A k \in 1..Len(word) : word[k] \in Letters

\* the text at index i (from 0) of text is word in some spelling, and the
\* characters before and after it are not word characters
Standalone(text, i, word) ==
  /\ i + Len(word) <= Len(text)
  /\ SameWord(SubSeq(text, i + 1, i + Len(word)), word)
  /\ (i > 0 => text[i] \notin WordChars)
  /\ (i + Len(word) < Len(text) => text[i + Len(word) + 1] \notin WordChars)

\* a text node that is a child of this element is collected by the walker
Qualifies(el) == el.tag \notin SKIP_ELEMENTS /\ ~el.editable /\ ~el.root

\* offset of child k of the element in the text of the element
KidOffset(kids, k) == Len(textOfKids(SubSeq(kids, 1, k - 1)))

\* where the words stand alone in the text nodes of the page d that are
\* children of qualifying elements: element, offset, index of the word
Occurrences(d, words) ==
  { o \in UNION { [elem : {e}, offset : 0..Len(PageText(d)[e]),
                   entry : 1..Len(words)] : e \in DOMAIN d } :
      /\ Qualifies(d[o.elem])
      /\ \E k \in 1..Len(d[o.elem].kids) :
           /\ d[o.elem].kids[k].kind = "text"
           /\ o.offset >= KidOffset(d[o.elem].kids, k)
           /\ Standalone(d[o.elem].kids[k].text,
                         o.offset - KidOffset(d[o.elem].kids, k),
                         words[o.entry]) }

Place(m) == [elem |-> m.elem, offset |-> m.offset, text |-> m.text]

\* the places of the markers the pattern built from words has to add to d
Places(d, words) ==
  { [elem |-> o.elem, offset |-> o.offset,
     text |-> SubSeq(PageText(d)[o.elem], o.offset + 1,
                     o.offset + Len(words[o.entry]))] :
      o \in Occurrences(d, words) }

WordsOf(list) == [k \in 1..Len(list) |-> list[k].word]

\* <p>category the cat sat</p> with one marker, around the third word
CategoryTheCatSat(d) ==
  /\ PageText(d) = PageText(PageCategory)
  /\ { Place(m) : m \in Markers(d) } =
       { [elem |-> 1, offset |-> 13, text |-> <<"c","a","t">>] }

\* the step is highlightSingleWord called with t
Highlighted(t) ==
  last'.op = "highlightOne" /\ last'.word = t.word /\ TranslateResult(t)

\* the step is the wrapping loop of scan s with the list
Scanned(s, list) == last'.op = "scan" /\ ScanListArrives(s, list)

\* C17: the pattern built from words made of letters matches in a text node
\* exactly where the text is one of the words in some spelling with no word
\* character before and after it: highlightSingleWord and the full scan add
\* a marker in exactly these places.  With the word cat, "category the cat
\* sat" gets one marker, around the standalone cat.
C17_MatchesWholeWords ==
  [][/\ \A t \in Translated :
          (Highlighted(t) /\ LettersOnly(t.word)) =>
            { Place(m) : m \in Markers(dom') } =
              { Place(m) : m \in Markers(dom) } \cup Places(dom, << t.word >>)
     /\ \A s \in ScanIds, list \in ScanLists :
          (/\ Len(list) > 0
           /\ \A k \in 1..Len(list) : LettersOnly(list[k].word)
           /\ Scanned(s, list)) =>
            { Place(m) : m \in Markers(dom') } =
              { Place(m) : m \in Markers(dom) } \cup Places(dom, WordsOf(list))
     /\ (/\ PageText(dom) = PageText(PageCategory)
         /\ NumMarks(dom) = 0
         /\ \/ Highlighted([word |-> <<"c","a","t">>, translation |-> <<"y">>])
            \/ \E s \in ScanIds :
                 Scanned(s, << Entry(<<"c","a","t">>, <<"z">>) >>)) =>
          CategoryTheCatSat(dom')
    ]_vars

\* highlightSingleWord has wrapped the standalone cat of "category the cat
\* sat", and only that
C17_Witness ==
  /\ last.op = "highlightOne"
  /\ last.word = <<"c","a","t">>
  /\ last.count = 1
  /\ CategoryTheCatSat(dom)

\* the characters of the words the selection validator accepts
ValidatorChars == Letters \cup { "'", "-" }

\* the text at index i (from 0) of text is word in some spelling, and the
\* characters before and after it belong to no word
StandaloneWord(text, i, word) ==
  /\ i + Len(word) <= Len(text)
  /\ SameWord(SubSeq(text, i + 1, i + Len(word)), word)
  /\ (i > 0 => text[i] \notin WordChars \cup ValidatorChars)
  /\ (i + Len(word) < Len(text) =>
        text[i + Len(word) + 1] \notin WordChars \cup ValidatorChars)

\* C18: after a full scan with a list of words the selection validator
\* accepts, every standalone occurrence of every word of the list in a text
\* node of a qualifying element is wrapped in a marker with that word as
\* its word key and the translation of its entry, in whatever order the
\* entries are and also when one word is a prefix of another one.
C18_EveryOccurrenceWrapped ==
  [][\A s \in ScanIds, list \in ScanLists :
       (ScanListArrives(s, list) /\ Len(list) > 0) =>
         \A e \in DOMAIN dom, j \in 1..Len(list) :
           \A k \in 1..Len(dom[e].kids), i \in 0..Len(PageText(dom)[e]) :
             (/\ Qualifies(dom[e])
              /\ dom[e].kids[k].kind = "text"
              /\ StandaloneWord(dom[e].kids[k].text, i, list[j].word)) =>
               \E m \in Markers(dom') :
                 /\ m.elem = e
                 /\ m.offset = KidOffset(dom[e].kids, k) + i
                 /\ Len(m.text) = Len(list[j].word)
                 /\ m.word = list[j].word
                 /\ m.translation = list[j].translation
    ]_vars

\* C19: removeHighlightForWord(word) takes from the page exactly the markers
\* whose word key is word in some spelling, leaves their text in place, and
\* leaves every other marker where it is with its surface text, word key
\* and translation.
C19_RemovesMarkersOfWord ==
  [][\A w \in DeleteWords :
       RemoveHighlight(w) =>
         /\ Markers(dom') = { m \in Markers(dom) : ~SameWord(m.word, w) }
         /\ PageText(dom') = PageText(dom)
    ]_vars

\* removeHighlightForWord has removed a marker and left one of another word
C19_Witness ==
  /\ last.op = "removeForWord"
  /\ last.count > 0
  /\ \E m \in Markers(dom) : ~SameWord(m.word, last.word)

\* C20: when the translation of a word arrives and the popup shows the
\* result, every marker of the page for that word carries the translation
\* that arrived, the markers that were on the page before included.
C20_MarkersCarryFreshTranslation ==
  [][\A t \in Translated :
       TranslateResult(t) =>
         \A m \in Markers(dom') :
           SameWord(m.word, t.word) => m.translation = t.translation
    ]_vars

\* ------------------------------------------------------------------------
\* Properties of the translation client
\* ------------------------------------------------------------------------
\* the fetch of command i has been answered
Fetched(r) == r.pc \notin {"start", "getConfig", "translating"}

\* text is content without the white space at its two ends
Trimmed(text, content) ==
  /\ text # <<>>
  /\ ~IsSpace(text[1])
  /\ ~IsSpace(text[Len(text)])
  /\ \E a \in 0..Len(content) :
       /\ a + Len(text) <= Len(content)
       /\ SubSeq(content, a + 1, a + Len(text)) = text
       /\ \A k \in 1..Len(content) :
            (k <= a \/ k > a + Len(text)) => IsSpace(content[k])

\* C29: one call of translateWord makes one fetch and has one outcome: the
\* failure with the status code when the status is not a success, a
\* failure when the body has no choices or the text of the first choice is
\* empty after trimming, and the trimmed text otherwise, never the empty
\* string.
C29_OneOutcome ==
  [][\A i \in Ids :
       /\ Fetched(reqs[i]) => reqs'[i].pc # "translating"
       /\ \A h \in HttpResponses :
            (reqs[i].pc = "translating" /\ FetchDone(i, h)) =>
              /\ Fetched(reqs'[i])
              /\ (h.net /\ ~h.ok) =>
                   /\ reqs'[i].resp = ErrorResponse(
                        "API request failed (" \o ToString(h.status) \o ")")
                   /\ reqs'[i].translation = <<>>
              /\ (h.net /\ h.ok /\ TranslationFails(h)) =>
                   /\ reqs'[i].resp.kind = "error"
                   /\ reqs'[i].resp.error # ""
                   /\ reqs'[i].translation = <<>>
              /\ ~TranslationFails(h) =>
                   /\ reqs'[i].resp.kind # "error"
                   /\ Trimmed(reqs'[i].translation, h.choices[1].content)
    ]_vars

\* a TRANSLATE_WORD got the trimmed text of a body with white space around
\* it, and another one the failure with the status code
C29_Witness ==
  \E i, j \in Ids :
    /\ reqs[i].type = "TRANSLATE_WORD"
    /\ reqs[i].translation = <<"y">>
    /\ reqs[i].promise.state = "fulfilled"
    /\ reqs[j].resp.error = "API request failed (401)"

\* ------------------------------------------------------------------------
\* Properties of the badge
\* ------------------------------------------------------------------------
\* scan s ends in this step, its vocabulary list having arrived
Completed(s) == scans[s].pc = "waiting" /\ scans'[s].pc = "done"

\* a badge created by scan s is on the page
Displayed(s) == \E b \in badges : b.id = s

\* C26: when a full scan has completed, no badge of an earlier scan is
\* displayed: a badge on the page is the one of the scan that completed
\* last.
C26_NoEarlierBadge ==
  [][\A s \in ScanIds :
       Completed(s) => \A b \in badges' : b.id = s
    ]_vars

\* C27: a scan that finds at least one match displays a badge with its
\* match count; a displayed badge is removed in the end, by its timers or
\* by the badge that replaces it; at most one badge is on the page, and
\* activeBadge is null or the badge on the page.
C27_OneTransientBadge ==
  /\ [](/\ Cardinality(badges) <= 1
        /\ \A b \in badges : b.id = activeBadge
        /\ activeBadge # 0 => Displayed(activeBadge))
  /\ [][\A s \in ScanIds :
          (Completed(s) /\ scans'[s].count > 0) =>
            /\ [id |-> s, count |-> scans'[s].count, fade |-> FALSE]
                 \in badges'
            /\ activeBadge' = s
       ]_vars
  /\ \A s \in 1..MaxScans : Displayed(s) ~> ~Displayed(s)

\* the badge of the second scan fades on the page, the first scan having
\* shown a badge before
C27_Witness ==
  /\ Len(scans) >= 2
  /\ scans[1].count > 0
  /\ \E b \in badges : b.id = 2 /\ b.fade /\ b.count = scans[2].count
  /\ activeBadge = 2

\* C28: a full scan whose vocabulary list is empty creates no marker and
\* shows no badge, and the markers and the badge that were on the page
\* when it was called are there when it ends.
C28_EmptyListScanIsNoOp ==
  [][\A s \in ScanIds :
       (Completed(s) /\ ScanListArrives(s, <<>>)) =>
         /\ Markers(dom') = Markers(dom)
         /\ badges' = badges
         /\ activeBadge' = activeBadge
         /\ scans[s].before \subseteq Markers(dom')
    ]_vars

\* ------------------------------------------------------------------------
\* Content script: the context of a selected word
\* ------------------------------------------------------------------------
MAX_PARAGRAPH_LENGTH == 500

BLOCK_ELEMENTS ==
  { "P", "DIV", "LI", "BLOCKQUOTE", "H1", "H2", "H3", "H4", "H5", "H6",
    "ARTICLE", "SECTION", "TD", "TH", "DD", "DT", "PRE", "FIGCAPTION" }

\* text.indexOf(word): the index, counted from 0, of the first occurrence
\* of word in text, -1 when there is none
indexOf(text, word) ==
  LET found == { k \in 0..(Len(text) - Len(word)) :
                   SubSeq(text, k + 1, k + Len(word)) = word }
  IN IF found = {} THEN -1
     ELSE CHOOSE k \in found : \A j \in found : k <= j

Min(a, b) == IF a < b THEN a ELSE b

Max(a, b) == IF a > b THEN a ELSE b

\* the window that is the start of the text wherever the word is
contextWindowFromStart(text, word) ==
  [start |-> 0, end |-> MAX_PARAGRAPH_LENGTH]

\* The window [start, end) getEnclosingParagraphText slices out of a text
\* longer than MAX_PARAGRAPH_LENGTH: half of it on each side of the first
\* occurrence of word, moved into the text when it passes one of its ends,
\* and the start of the text when word does not occur.
contextWindow(text, word) ==
  LET wordIndex == indexOf(toLowerCase(text), toLowerCase(word))
      half == MAX_PARAGRAPH_LENGTH \div 2
      start0 == wordIndex - half
      end0 == wordIndex + half
      start1 == IF start0 < 0 THEN 0 ELSE start0
      end1 == IF start0 < 0 THEN Min(Len(text), end0 - start0) ELSE end0
      start2 == IF end1 > Len(text)
                  THEN Max(0, start1 - (end1 - Len(text))) ELSE start1
      end2 == IF end1 > Len(text) THEN Len(text) ELSE end1
  IN IF wordIndex = -1
       THEN [start |-> 0, end |-> MAX_PARAGRAPH_LENGTH]
       ELSE [start |-> start2, end |-> end2]

\* getEnclosingParagraphText(node, word), text being the textContent of the
\* block element that encloses node
getEnclosingParagraphText(text, word) ==
  IF Len(text) <= MAX_PARAGRAPH_LENGTH THEN trim(text)
  ELSE LET w == contextWindow(text, word)
       IN trim(slice(text, w.start, w.end))

\* The text of a block element of len characters that has the word Cat at
\* the index at, when at is not -1, a space at the indexes of gaps, and the
\* letter x elsewhere.
BlockText(len, at, gaps) ==
  [k \in 1..len |->
     IF at >= 0 /\ at < k /\ k <= at + 3 THEN <<"C","a","t">>[k - at]
     ELSE IF (k - 1) \in gaps THEN " " ELSE "x"]

\* The text of len characters that has the word Cat at the index at and
\* the letters cat, inside a longer word, at the index first before it.
TextWithEarlier(len, first, at) ==
  [k \in 1..len |->
     IF at < k /\ k <= at + 3 THEN <<"C","a","t">>[k - at]
     ELSE IF first < k /\ k <= first + 3 THEN <<"c","a","t">>[k - first]
     ELSE "x"]

\* The selections of the word Cat in block elements of up to 1000
\* characters, at the start of the text, near it, in the middle, near the
\* end and at the end, with a space where a window around the word starts
\* or ends; and selections whose word the text of the block has not.
\* And selections of Cat at 300, 600 and 797 in texts that have the
\* letters cat before it, at 0 or at 100.
ContextSelections ==
  { [collapsed |-> FALSE, word |-> <<"C","a","t">>,
     text |-> BlockText(t[1], t[2], t[3]), at |-> t[2]] :
      t \in { t \in {499, 501, 800, 1000}
                    \X {-1, 0, 249, 250, 300, 551, 600, 797}
                    \X {{}, {0}, {350}, {799}} :
                t[2] + 3 <= t[1] } }
  \cup
  { [collapsed |-> FALSE, word |-> <<"C","a","t">>,
     text |-> TextWithEarlier(t[1], t[2], t[3]), at |-> t[3]] :
      t \in {800, 1000} \X {0, 100} \X {300, 600, 797} }

\* a page in which the user selects one of ContextSelections
InitContext ==
  /\ vocabList = <<>>
  /\ apiKey = <<>>
  /\ writeQueue = <<>>
  /\ reqs = <<>>
  /\ clock = 0
  /\ dom = <<>>
  /\ scans = << [pc |-> "done", before |-> {}, count |-> 0] >>
  /\ last = Operated("scan", <<>>, <<>>, 0)
  /\ Declared

\* ------------------------------------------------------------------------
\* Content script: the popup
\* ------------------------------------------------------------------------
\* number of TRANSLATE_WORD requests the page sends
MaxCalls == 2

\* the words the user selects
SelectWords == { <<"c","a","t">>, <<"C","a","t">>, <<"d","o","g">> }

\* the selections of one of SelectWords in a block element of the page d
PageSelections(d) ==
  UNION { { [collapsed |-> FALSE, word |-> w, text |-> PageText(d)[e],
               at |-> indexOf(PageText(d)[e], w)] :
              w \in { v \in SelectWords : indexOf(PageText(d)[e], v) >= 0 } } :
            e \in { i \in DOMAIN d : d[i].tag \in BLOCK_ELEMENTS } }

\* the translation the service worker answers for word
TranslationOf(word) ==
  IF toLowerCase(word) = <<"c","a","t">> THEN <<"y">> ELSE <<"z">>

\* the responses of TRANSLATE_WORD for word: the translation, of a new or
\* of an updated entry, or a failure
TranslateResponses(word) ==
  { [NoResponse EXCEPT !.kind = "translated", !.success = TRUE,
                       !.translation = TranslationOf(word), !.updated = u] :
      u \in BOOLEAN }
  \cup { ErrorResponse(NoApiKeyError),
         ErrorResponse("API request failed (401)") }

\* the state of the popup controller as one value
Controller ==
  [popup |-> popup, currentWord |-> currentWord,
   currentParagraph |-> currentParagraph, isTranslating |-> isTranslating,
   calls |-> calls]

\* the popup controller is left in the state c
Becomes(c) ==
  /\ popup' = c.popup
  /\ currentWord' = c.currentWord
  /\ currentParagraph' = c.currentParagraph
  /\ isTranslating' = c.isTranslating
  /\ calls' = c.calls

\* an element appended to the popup: kind is its class without vh-popup-,
\* text the translation it shows, msg its other text
Item(kind, text, msg) == [kind |-> kind, text |-> text, msg |-> msg]

\* popup.innerHTML was assigned: the button and the loading element the
\* calls in flight refer to are no longer in the popup
Detached(cs) ==
  [k \in DOMAIN cs |-> [cs[k] EXCEPT !.btn = FALSE, !.loadingEl = FALSE]]

showPopup(c, word, text) ==
  [c EXCEPT
     !.currentWord = word,
     !.currentParagraph = getEnclosingParagraphText(text, word),
     !.popup = [display |-> TRUE, header |-> word,
                btn |-> [present |-> TRUE, disabled |-> FALSE,
                         busy |-> FALSE, hidden |-> FALSE],
                items |-> <<>>],
     !.calls = Detached(c.calls)]

hidePopup(c) ==
  [c EXCEPT !.popup = NoPopup,
            !.isTranslating = FALSE,
            !.calls = Detached(c.calls)]

\* requestTranslation without the test of isTranslating
requestTranslationUnguarded(c) ==
  [c EXCEPT
     !.isTranslating = TRUE,
     !.popup.btn = IF @.present
                     THEN [@ EXCEPT !.disabled = TRUE, !.busy = TRUE] ELSE @,
     !.popup.items = << Item("loading", <<>>, "") >>,
     !.calls = Append([k \in DOMAIN @ |-> [@[k] EXCEPT !.loadingEl = FALSE]],
                      [word |-> c.currentWord,
                       paragraph |-> c.currentParagraph,
                       pc |-> "waiting",
                       btn |-> c.popup.btn.present,
                       loadingEl |-> TRUE])]

\* requestTranslation up to its await: nothing when isTranslating is set;
\* else the guard is set, the button disabled, every element appended
\* before removed, the loading element appended and TRANSLATE_WORD sent
\* with currentWord and currentParagraph.  btn and loadingEl of the call
\* tell whether the button and the loading element it holds are still in
\* the popup.
requestTranslation(c) ==
  IF c.isTranslating THEN c
  ELSE [c EXCEPT
     !.isTranslating = TRUE,
     !.popup.btn = IF @.present
                     THEN [@ EXCEPT !.disabled = TRUE, !.busy = TRUE] ELSE @,
     !.popup.items = << Item("loading", <<>>, "") >>,
     !.calls = Append([k \in DOMAIN @ |-> [@[k] EXCEPT !.loadingEl = FALSE]],
                      [word |-> c.currentWord,
                       paragraph |-> c.currentParagraph,
                       pc |-> "waiting",
                       btn |-> c.popup.btn.present,
                       loadingEl |-> TRUE])]

\* errorMsg.includes("API key"): of the messages of the service worker,
\* the one of the missing key has it
includesApiKey(errorMsg) == errorMsg = NoApiKeyError

showError(c, errorMsg) ==
  IF includesApiKey(errorMsg)
    THEN [c EXCEPT
            !.popup.items = Append(@, Item("hint", <<>>, "")),
            !.popup.btn = IF @.present
                            THEN [@ EXCEPT !.disabled = TRUE, !.busy = FALSE]
                            ELSE @]
    ELSE [c EXCEPT
            !.popup.items = @ \o << Item("error", <<>>, errorMsg),
                                    Item("retry", <<>>, "") >>,
            !.popup.btn = IF @.present
                            THEN [@ EXCEPT !.disabled = FALSE, !.busy = FALSE]
                            ELSE @]

\* loadingEl.remove() of call k
loadingRemoved(c, k) ==
  IF c.calls[k].loadingEl
    THEN [c EXCEPT !.popup.items = SelectSeq(@, LAMBDA it : it.kind # "loading"),
                   !.calls[k].loadingEl = FALSE]
    ELSE c

\* requestTranslation of call k after its await, the response resp having
\* arrived, without highlightSingleWord
responded(c, k, resp) ==
  LET c1 == loadingRemoved(c, k)
      c2 == IF resp.success
              THEN [c1 EXCEPT
                      !.popup.items = @ \o
                        << Item("translation", resp.translation, ""),
                           Item("status", <<>>,
                                IF resp.updated THEN "updated" ELSE "added") >>,
                      !.popup.btn = IF c.calls[k].btn
                                      THEN [@ EXCEPT !.hidden = TRUE] ELSE @]
              ELSE showError(c1, resp.error)
  IN [c2 EXCEPT !.isTranslating = FALSE, !.calls[k].pc = "done"]

\* the mouseup listener without the test of isTranslating
outsideClickAlways(c) == IF c.popup.display THEN hidePopup(c) ELSE c

\* the timer of the mouseup listener when the selection is collapsed
outsideClick(c) ==
  IF c.popup.display /\ ~c.isTranslating THEN hidePopup(c) ELSE c

\* mouseup outside the popup, 10 ms later, the user having selected sel
MouseUpSelection(sel) ==
  /\ selection' = sel
  /\ Becomes(showPopup(Controller, sel.word, sel.text))
  /\ UNCHANGED <<dom, scans, last, store, badge>>

\* mouseup outside the popup, 10 ms later, nothing being selected
MouseUpCollapsed ==
  /\ selection' = NoSelection
  /\ Becomes(outsideClick(Controller))
  /\ UNCHANGED <<dom, scans, last, store, badge>>

\* keydown Escape
KeyEscape ==
  /\ Becomes(hidePopup(Controller))
  /\ UNCHANGED <<selection, dom, scans, last, store, badge>>

\* click on .vh-popup-close
ClickClose ==
  /\ popup.display
  /\ Becomes(hidePopup(Controller))
  /\ UNCHANGED <<selection, dom, scans, last, store, badge>>

\* the button .vh-popup-btn of the popup can be clicked
ButtonEnabled(c) ==
  /\ c.popup.display
  /\ c.popup.btn.present
  /\ ~c.popup.btn.disabled
  /\ ~c.popup.btn.hidden

\* the popup shows a button .vh-popup-retry
RetryShown(c) ==
  /\ c.popup.display
  /\ \E k \in DOMAIN c.popup.items : c.popup.items[k].kind = "retry"

\* click on .vh-popup-btn
ClickTranslate ==
  /\ ButtonEnabled(Controller)
  /\ isTranslating \/ Len(calls) < MaxCalls
  /\ Becomes(requestTranslation(Controller))
  /\ UNCHANGED <<selection, dom, scans, last, store, badge>>

\* click on .vh-popup-retry
ClickRetry ==
  /\ RetryShown(Controller)
  /\ Len(calls) < MaxCalls
  /\ Becomes(requestTranslation([Controller EXCEPT !.isTranslating = FALSE]))
  /\ UNCHANGED <<selection, dom, scans, last, store, badge>>

\* the response resp of the TRANSLATE_WORD of call k arrives
ResponseArrives(k, resp) ==
  /\ calls[k].pc = "waiting"
  /\ Becomes(responded(Controller, k, resp))
  /\ IF resp.success
       THEN /\ dom' = highlightSingleWord(dom, currentWord, resp.translation)
            /\ last' = Operated("highlightOne", currentWord, resp.translation,
                                NumMarks(dom') - NumMarks(dom))
       ELSE UNCHANGED <<dom, last>>
  /\ UNCHANGED <<selection, scans, store, badge>>

\* the TRANSLATE_WORD of call k rejects: the catch of requestTranslation
RequestRejects(k) ==
  /\ calls[k].pc = "waiting"
  /\ Becomes(responded(Controller, k,
                       ErrorResponse("Translation request failed")))
  /\ UNCHANGED <<selection, dom, scans, last, store, badge>>

\* The content script was loaded into a page and its scan has ended.
InitPopup ==
  /\ vocabList = <<>>
  /\ apiKey = <<>>
  /\ writeQueue = <<>>
  /\ reqs = <<>>
  /\ clock = 0
  /\ dom \in Pages
  /\ scans = << [pc |-> "done", before |-> {}, count |-> 0] >>
  /\ last = Operated("scan", <<>>, <<>>, 0)
  /\ Declared

NextPopup ==
  \/ \E sel \in PageSelections(dom) : MouseUpSelection(sel)
  \/ MouseUpCollapsed
  \/ KeyEscape
  \/ ClickClose
  \/ ClickTranslate
  \/ ClickRetry
  \/ \E k \in 1..Len(calls) :
       \E resp \in TranslateResponses(calls[k].word) : ResponseArrives(k, resp)
  \/ \E k \in 1..Len(calls) : RequestRejects(k)

SpecPopup == InitPopup /\ [][NextPopup]_vars

\* the popup shown for selections in long blocks of text
NextContext ==
  \/ \E sel \in ContextSelections : MouseUpSelection(sel)
  \/ MouseUpCollapsed
  \/ KeyEscape

SpecContext == InitContext /\ [][NextContext]_vars

\* ------------------------------------------------------------------------
\* Properties of the context of a selected word
\* ------------------------------------------------------------------------
\* the popup is shown for the selection the page has
ShownForSelection ==
  /\ popup.display
  /\ ~selection.collapsed
  /\ currentWord = selection.word

\* index of the first occurrence of the word in the text of its block
FoundAt == indexOf(toLowerCase(selection.text), toLowerCase(selection.word))

\* currentParagraph is the window of MAX_PARAGRAPH_LENGTH characters from
\* start of the text of the block, without the white space at its ends
IsWindowFrom(start) ==
  LET window == SubSeq(selection.text, start + 1, start + MAX_PARAGRAPH_LENGTH)
      inner == { k \in DOMAIN window : ~IsSpace(window[k]) }
  IN IF inner = {} THEN currentParagraph = <<>>
     ELSE LET first == CHOOSE k \in inner : \A j \in 1..(k - 1) : j \notin inner
              final == CHOOSE k \in inner :
                         \A j \in (k + 1)..Len(window) : j \notin inner
          IN currentParagraph = SubSeq(window, first, final)

\* C25 as stated: of a text longer than 500 characters in which the word is
\* found at index i, the context is the window of exactly 500 characters
\* that starts at i - 250, and this window is inside the text; of a text of
\* 800 characters with the word at 600 it has exactly 500 characters around
\* the word; no context has more than 500 characters.
C25_WindowCentered ==
  ShownForSelection =>
    LET half == MAX_PARAGRAPH_LENGTH \div 2
    IN /\ Len(currentParagraph) <= MAX_PARAGRAPH_LENGTH
       /\ (Len(selection.text) > MAX_PARAGRAPH_LENGTH /\ FoundAt >= 0) =>
            /\ 0 <= FoundAt - half
            /\ FoundAt + half <= Len(selection.text)
            /\ IsWindowFrom(FoundAt - half)
       /\ (Len(selection.text) = 800 /\ FoundAt = 600) =>
            Len(currentParagraph) = MAX_PARAGRAPH_LENGTH

\* C25 (amended): of a text longer than 500 characters in which the word
\* is found at index i, the context is a window of exactly 500 characters
\* inside the text, without the white space at its ends: the window starts
\* at i - 250 when that window is inside the text, at 0 when i < 250, and
\* ends with the text when i + 250 is past its end; the first letter of the
\* found word is in the window.  Of a text of 800 characters with the word
\* at 600 it is the last 500 characters.  No context has more than 500
\* characters.
C25_WindowClamped ==
  ShownForSelection =>
    LET half == MAX_PARAGRAPH_LENGTH \div 2
        length == Len(selection.text)
        start == IF FoundAt < half THEN 0
                 ELSE IF FoundAt + half > length
                   THEN length - MAX_PARAGRAPH_LENGTH
                 ELSE FoundAt - half
    IN /\ Len(currentParagraph) <= MAX_PARAGRAPH_LENGTH
       /\ (length > MAX_PARAGRAPH_LENGTH /\ FoundAt >= 0) =>
            /\ 0 <= start
            /\ start + MAX_PARAGRAPH_LENGTH <= length
            /\ start <= FoundAt
            /\ FoundAt < start + MAX_PARAGRAPH_LENGTH
            /\ IsWindowFrom(start)
       /\ (length = 800 /\ FoundAt = 600) => IsWindowFrom(300)

\* the popup is shown for a word at 600 of a text of 800 characters, the
\* context being its last 500 characters
C25_Witness ==
  /\ ShownForSelection
  /\ Len(selection.text) = 800
  /\ FoundAt = 600
  /\ Len(currentParagraph) = MAX_PARAGRAPH_LENGTH
  /\ currentParagraph = SubSeq(selection.text, 301, 800)

\* ------------------------------------------------------------------------
\* Properties of the popup
\* ------------------------------------------------------------------------
CallIds == 1..Len(calls)

\* the calls whose TRANSLATE_WORD awaits its response
InFlight == { k \in CallIds : calls[k].pc = "waiting" }

\* the response of call k arrives in this step
CallAnswered(k) == calls[k].pc = "waiting" /\ calls'[k].pc = "done"

\* the popup has an element of the kind
Shows(p, kind) == \E n \in DOMAIN p.items : p.items[n].kind = kind

\* C21: while isTranslating is set, a call of requestTranslation sends no
\* second TRANSLATE_WORD and changes nothing of the popup, and there is no
\* retry button, whose listener clears the guard before it calls
\* requestTranslation; no step taken while it is set sends a request.
C21_NoSecondRequestWhileTranslating ==
  /\ [](isTranslating =>
          /\ requestTranslation(Controller) = Controller
          /\ ~RetryShown(Controller))
  /\ [][isTranslating => Len(calls') = Len(calls)]_vars

\* while a request is awaited the popup was shown again: its button can be
\* clicked and isTranslating is set
C21_Witness ==
  /\ isTranslating
  /\ ButtonEnabled(Controller)
  /\ InFlight # {}

\* C22: a response that arrives after the popup was hidden, or shown again
\* for another word, adds nothing to the popup; the translation the popup
\* shows is the one of the word in its header.
C22_LateResponseDiscarded ==
  /\ [][\A k \in CallIds :
          (CallAnswered(k) /\ (~popup.display \/ popup.header # calls[k].word))
            => popup' = popup
       ]_vars
  /\ [](popup.display =>
          \A n \in DOMAIN popup.items :
            popup.items[n].kind = "translation" =>
              popup.items[n].text = TranslationOf(popup.header))

\* the popup shows the hint of the missing key
HintShown == popup.display /\ Shows(popup, "hint")

\* C23: the failure of the missing key, arriving while isTranslating is
\* set, leaves the hint, the button disabled and no retry button, and as
\* long as that hint is shown no request can be sent; another failure
\* leaves the message and a retry button, and a click on the retry button
\* sets isTranslating and sends one new request.
C23_FailureStates ==
  /\ [][\A k \in CallIds :
          (isTranslating /\ CallAnswered(k) /\ popup.display) =>
            /\ ResponseArrives(k, ErrorResponse(NoApiKeyError)) =>
                 /\ Shows(popup', "hint")
                 /\ popup'.btn.disabled
                 /\ ~Shows(popup', "retry")
            /\ ResponseArrives(k, ErrorResponse("API request failed (401)")) =>
                 /\ Shows(popup', "error")
                 /\ Shows(popup', "retry")
       ]_vars
  /\ [](HintShown => ~ButtonEnabled(Controller) /\ ~RetryShown(Controller))
  /\ [][(RetryShown(Controller) /\ ClickRetry) =>
          /\ isTranslating'
          /\ Len(calls') = Len(calls) + 1
          /\ calls'[Len(calls')].pc = "waiting"
       ]_vars

\* C24: the outside click hides the popup only when isTranslating is not
\* set: while it is set, the popup, the guard and the calls are left as
\* they are; and a step that hides the popup while isTranslating is not set
\* leaves it without any content.
C24_OutsideClickRespectsGuard ==
  /\ [][(selection # NoSelection /\ selection' = NoSelection) =>
          IF isTranslating \/ ~popup.display
            THEN UNCHANGED <<popup, isTranslating, currentWord,
                             currentParagraph, calls>>
            ELSE popup' = NoPopup /\ ~isTranslating'
       ]_vars
  /\ [][(~isTranslating /\ popup.display /\ ~popup'.display) =>
          popup' = NoPopup
       ]_vars
  /\ [](outsideClick(Controller) =
          IF popup.display /\ ~isTranslating
            THEN [Controller EXCEPT !.popup = NoPopup,
                                    !.calls = Detached(calls)]
            ELSE Controller)

\* the user has clicked outside the popup while a translation was awaited:
\* nothing is selected and the popup is shown with the guard set
C24_Witness ==
  /\ selection = NoSelection
  /\ popup.display
  /\ isTranslating
  /\ Shows(popup, "loading")

\* C30: at most one TRANSLATE_WORD of the page awaits its response, and
\* the word and the translation highlightSingleWord is called with after a
\* response are the word of that request and the translation answered for
\* it.
C30_OneRequestInFlight ==
  /\ [](Cardinality(InFlight) <= 1)
  /\ [][\A k \in CallIds :
          (CallAnswered(k) /\ \E resp \in TranslateResponses(calls[k].word) :
                            resp.success /\ ResponseArrives(k, resp))
            => /\ last'.op = "highlightOne"
               /\ last'.word = calls[k].word
               /\ last'.translation = TranslationOf(calls[k].word)
       ]_vars

\* ------------------------------------------------------------------------
\* Properties of overlapping scans
\* ------------------------------------------------------------------------
\* Scan s, the last one awaited, ends in this step with the list, and the
\* operation before it on the page was the end of another scan: the two
\* scans awaited their lists at the same time, and nothing but them has
\* acted on the page since the later of them removed the highlights.
LastOfOverlapping(s, list) ==
  /\ last.op = "scan"
  /\ scans[s].pc = "waiting"
  /\ \A r \in ScanIds \ {s} : scans[r].pc = "done"
  /\ Scanned(s, list)

\* C31: when two full scans overlap on the page, after both have ended the
\* markers on the page are the markers of a single scan with the list read
\* last, and the badge displayed reports the number of markers on the page.
C31_OverlappingScansAsOne ==
  [][\A s \in ScanIds, list \in ScanLists :
       LastOfOverlapping(s, list) =>
         /\ Markers(dom') = Markers(ScanAgain(dom, list))
         /\ \A b \in badges' : b.count = NumMarks(dom')
    ]_vars


\* ------------------------------------------------------------------------
\* Properties of the context of a selected occurrence
\* ------------------------------------------------------------------------
\* C32: of a text longer than 500 characters, the context is cut from a
\* window that contains the occurrence of the word the user selected, also
\* when the letters of the word occur before it in the text.
C32_ContextHasSelectedOccurrence ==
  (/\ ShownForSelection
   /\ selection.at >= 0
   /\ Len(selection.text) > MAX_PARAGRAPH_LENGTH) =>
    \E start \in 0..(Len(selection.text) - MAX_PARAGRAPH_LENGTH) :
      /\ start <= selection.at
      /\ selection.at + Len(selection.word) <= start + MAX_PARAGRAPH_LENGTH
      /\ IsWindowFrom(start)

====
